---- MODULE Spec2Model ----
(***************************************************************************)
(* A model of pylox, a tree-walking interpreter for Lox.                   *)
(*                                                                         *)
(* The interpreter is modelled as an abstract machine.  The host (Python)  *)
(* call stack of visit_* activations is the variable `stack`; the value or *)
(* exception an activation hands to its caller is the variable `ret`.      *)
(* Environment, LoxFunction, LoxClass and LoxInstance objects live in      *)
(* heaps (sequences) and are referred to by their position, which plays    *)
(* the role of object identity.  The resolver is a recursive operator over *)
(* the AST which threads the Resolver object's fields.                     *)
(***************************************************************************)
EXTENDS Integers, Sequences, FiniteSets, TLC

(***************************************************************************)
(* Bounds of the model.                                                    *)
(***************************************************************************)
\* number of inputs read by one REPL session
MaxInputs == 2

\* the longest list of arbitrary tokens given to the parser
MaxTokens == 3

\* the most statements of a source built from statements
MaxStatements == 3

\* the most parameters of a declaration and arguments of a call given to
\* the parser
MaxParameters == 257

\* the most assignment targets of a statement given to the parser
MaxTargets == 2

\* the most characters of a source given to the lexer
MaxSource == 4

(***************************************************************************)
(* Lox values.  Every value is a record [t, v, s]: t is the host type, v   *)
(* the numeric payload or the object identity, s the string payload.       *)
(* Floats of the model are the integral floats v.0.                        *)
(***************************************************************************)
Nil == [t |-> "nil", v |-> 0, s |-> ""]
Boolean(b) == [t |-> "Boolean", v |-> IF b THEN 1 ELSE 0, s |-> ""]
Integer(n) == [t |-> "Integer", v |-> n, s |-> ""]
Float(n) == [t |-> "Float", v |-> n, s |-> ""]
String(str) == [t |-> "String", v |-> 0, s |-> str]
FunctionValue(id) == [t |-> "Function", v |-> id, s |-> ""]
ClassValue(id) == [t |-> "Class", v |-> id, s |-> ""]
InstanceValue(id) == [t |-> "Instance", v |-> id, s |-> ""]
NativeClock == [t |-> "NativeClock", v |-> 0, s |-> ""]

\* values time.time() may return in the model
ClockValues == {Float(7), Float(8)}

\* isinstance(value, Number): integers and floats, not booleans
IsNumber(value) == value.t \in {"Integer", "Float"}

\* the host's == on Lox values: bool, int and float compare by numeric
\* value, strings by content, None with None, objects by identity
PyEq(a, b) ==
    LET numeric == {"Boolean", "Integer", "Float"} IN
    IF a.t \in numeric /\ b.t \in numeric THEN a.v = b.v
    ELSE IF a.t = "String" /\ b.t = "String" THEN a.s = b.s
    ELSE a.t = b.t /\ a.v = b.v

\* get_lox_type_name raises NotImplementedError on these values
TypeNameRaises(value) == value.t \in {"Instance", "NativeClock"}

get_lox_type_name(value) == value.t

is_lox_callable(value) == value.t \in {"Function", "Class", "NativeClock"}

\* is_truthy raises NotImplementedError on these values
TruthyRaises(value) ==
    value.t \notin {"nil", "String", "Integer", "Float", "Boolean"}

\* a truthiness in which only nil and false are falsy
is_truthy_strict(value) == value \notin {Nil, Boolean(FALSE)}

is_truthy(value) ==
    IF value.t = "nil" THEN FALSE
    ELSE IF value.t = "String" THEN value.s # ""
    ELSE value.v # 0

(***************************************************************************)
(* AST nodes (nodes.py).  A node is a record whose field k is the class    *)
(* name.  Tokens are represented by their string; the token's index is the *)
(* node's index.  None is the absent optional child.                       *)
(***************************************************************************)
None == [k |-> "None"]

Literal(value, index) == [k |-> "Literal", value |-> value, index |-> index]
Variable(name, index) == [k |-> "Variable", name |-> name, index |-> index]
Assignment(name, value, index) ==
    [k |-> "Assignment", name |-> name, value |-> value, index |-> index]
Unary(operator, right, index) ==
    [k |-> "Unary", operator |-> operator, right |-> right, index |-> index]
Binary(left, operator, right, index) ==
    [k |-> "Binary", left |-> left, operator |-> operator, right |-> right,
     index |-> index]
Grouping(expression, index) ==
    [k |-> "Grouping", expression |-> expression, index |-> index]
Call(callee, arguments, index) ==
    [k |-> "Call", callee |-> callee, arguments |-> arguments, index |-> index]
Get(object, name, index) ==
    [k |-> "Get", object |-> object, name |-> name, index |-> index]
Set(object, name, value, index) ==
    [k |-> "Set", object |-> object, name |-> name, value |-> value,
     index |-> index]
This(index) == [k |-> "This", index |-> index]
Super(method, index) == [k |-> "Super", method |-> method, index |-> index]

VarDeclaration(name, initializer) ==
    [k |-> "VarDeclaration", name |-> name, initializer |-> initializer]
FunctionDef(name, parameters, body) ==
    [k |-> "FunctionDef", name |-> name, parameters |-> parameters,
     body |-> body]
ClassDef(name, superclass, methods) ==
    [k |-> "ClassDef", name |-> name, superclass |-> superclass,
     methods |-> methods]
Block(body) == [k |-> "Block", body |-> body]
PrintStmt(value) == [k |-> "Print", value |-> value]
If(condition, body, else_body) ==
    [k |-> "If", condition |-> condition, body |-> body,
     else_body |-> else_body]
While(condition, body) ==
    [k |-> "While", condition |-> condition, body |-> body]
For(initializer, condition, increment, body) ==
    [k |-> "For", initializer |-> initializer, condition |-> condition,
     increment |-> increment, body |-> body]
ReturnStmt(value) == [k |-> "ReturnStmt", value |-> value]
ExprStmt(expression) == [k |-> "ExprStmt", expression |-> expression]
Program(body) == [k |-> "Program", body |-> body]

(***************************************************************************)
(* Tokens (tokens.py).  A source is the sequence of its characters; the    *)
(* string of a token is the text it spans, its index the position of its   *)
(* first character.  The value None is Nil.                                *)
(***************************************************************************)
Token(token_type, string, value, index) ==
    [token_type |-> token_type, string |-> string, value |-> value,
     index |-> index]

EOF == Token("EOF", "", Nil, -1)

KEYWORD_TOKENS ==
    ("var" :> "VAR") @@ ("true" :> "TRUE") @@ ("false" :> "FALSE")
    @@ ("nil" :> "NIL") @@ ("print" :> "PRINT") @@ ("and" :> "AND")
    @@ ("or" :> "OR") @@ ("if" :> "IF") @@ ("else" :> "ELSE")
    @@ ("for" :> "FOR") @@ ("while" :> "WHILE") @@ ("fun" :> "FUN")
    @@ ("return" :> "RETURN") @@ ("class" :> "CLASS") @@ ("this" :> "THIS")
    @@ ("super" :> "SUPER")

(***************************************************************************)
(* The lexer (lexer.py).  A lexer state l holds the Lexer's fields and the *)
(* exception raised, if any; start and current count characters from 0.    *)
(***************************************************************************)
Digits == {"0", "1", "2", "3", "4", "5", "6", "7", "8", "9"}

Letters ==
    {"a", "b", "c", "d", "e", "f", "g", "h", "i", "j", "k", "l", "m", "n",
     "o", "p", "q", "r", "s", "t", "u", "v", "w", "x", "y", "z",
     "A", "B", "C", "D", "E", "F", "G", "H", "I", "J", "K", "L", "M", "N",
     "O", "P", "Q", "R", "S", "T", "U", "V", "W", "X", "Y", "Z"}

\* "".join(chars)
RECURSIVE Join(_)
Join(chars) == IF chars = <<>> THEN "" ELSE chars[1] \o Join(Tail(chars))

\* source[start:current]
Slice(source, start, current) == SubSeq(source, start + 1, current)

NewLexer(source) ==
    [source |-> source, tokens |-> <<>>, start |-> 0, current |-> 0,
     error |-> "", msg |-> "", index |-> -1]

LexerRaise(l, error, msg, index) ==
    [l EXCEPT !.error = error, !.msg = msg, !.index = index]

Lexer_scanned(l) == l.current >= Len(l.source)

Lexer_advance(l) == [l EXCEPT !.current = @ + 1]

Lexer_peek(l) == IF Lexer_scanned(l) THEN "" ELSE l.source[l.current + 1]

Lexer_peek_next(l) ==
    IF l.current + 1 >= Len(l.source) THEN "" ELSE l.source[l.current + 2]

\* match_next: whether the character is there; the lexer then advances
Lexer_match_next(l, char) ==
    ~Lexer_scanned(l) /\ l.source[l.current + 1] = char

\* an add_token that leaves start where the token began
add_token_keep_start(l, token_type, value) ==
    [l EXCEPT !.tokens = Append(@, Token(token_type,
                                         Join(Slice(l.source, l.start,
                                                    l.current)),
                                         value, l.start))]

\* Lexer.add_token
add_token(l, token_type, value) ==
    [l EXCEPT !.tokens = Append(@, Token(token_type,
                                         Join(Slice(l.source, l.start,
                                                    l.current)),
                                         value, l.start)),
              !.start = l.current]

\* scan_comment
RECURSIVE scan_comment(_)
scan_comment(l) ==
    IF ~Lexer_scanned(l) /\ Lexer_peek(l) # "\n"
    THEN scan_comment(Lexer_advance(l))
    ELSE [l EXCEPT !.start = l.current]

\* the loop of scan_identifier
RECURSIVE ScanWord(_)
ScanWord(l) ==
    IF ~Lexer_scanned(l) /\ Lexer_peek(l) \in Letters \cup Digits \cup {"_"}
    THEN ScanWord(Lexer_advance(l))
    ELSE l

scan_identifier(l) ==
    LET w == ScanWord(l)
        identifier == Join(Slice(w.source, w.start, w.current))
    IN IF identifier \in DOMAIN KEYWORD_TOKENS
       THEN add_token(w, KEYWORD_TOKENS[identifier], Nil)
       ELSE add_token(w, "IDENTIFIER", Nil)

\* the loop of scan_string; the state after it, `closed` telling whether
\* the loop was left by break
RECURSIVE ScanChars(_, _, _)
ScanChars(l, quote_char, unescaped_chars) ==
    IF Lexer_scanned(l)
    THEN [l |-> l, chars |-> unescaped_chars, closed |-> FALSE]
    ELSE LET char == Lexer_peek(l)
             a == Lexer_advance(l)
             next_char == Lexer_peek(a)
         IN IF char = quote_char
            THEN [l |-> a, chars |-> unescaped_chars, closed |-> TRUE]
            ELSE IF char # "\\"
            THEN ScanChars(a, quote_char, Append(unescaped_chars, char))
            ELSE IF next_char = ""
            THEN [l |-> LexerRaise(a, "LexIncompleteError", "", -1),
                  chars |-> unescaped_chars, closed |-> FALSE]
            ELSE IF next_char = "\n"
            THEN ScanChars(Lexer_advance(a), quote_char, unescaped_chars)
            ELSE IF next_char \in {"\\", "'", "\""}
            THEN ScanChars(Lexer_advance(a), quote_char,
                           Append(unescaped_chars, next_char))
            ELSE IF next_char = "n"
            THEN ScanChars(Lexer_advance(a), quote_char,
                           Append(unescaped_chars, "\n"))
            ELSE IF next_char = "t"
            THEN ScanChars(Lexer_advance(a), quote_char,
                           Append(unescaped_chars, "\t"))
            ELSE [l |-> LexerRaise(a, "LexError",
                                   "Unknown escape sequence: '" \o char
                                       \o next_char \o "'",
                                   a.current),
                  chars |-> unescaped_chars, closed |-> FALSE]

scan_string(l, quote_char) ==
    LET s == ScanChars(l, quote_char, <<>>)
    IN IF s.l.error # "" THEN s.l
       ELSE IF ~s.closed
       THEN LexerRaise(s.l, "LexError", "Unterminated string", s.l.start)
       ELSE add_token(s.l, "STRING", String(Join(s.chars)))

\* the loops `while self.peek().isdigit()` of scan_number
RECURSIVE ScanDigits(_)
ScanDigits(l) ==
    IF Lexer_peek(l) \in Digits THEN ScanDigits(Lexer_advance(l)) ELSE l

DigitValue(char) == CHOOSE n \in 0..9 : ToString(n) = char

\* int(digits)
RECURSIVE DecimalValue(_)
DecimalValue(digits) ==
    IF digits = <<>> THEN 0
    ELSE 10 * DecimalValue(SubSeq(digits, 1, Len(digits) - 1))
         + DigitValue(digits[Len(digits)])

\* Number(text): an int for digits, a float when there is a decimal point;
\* the floats of the model are the integral ones, so the fraction is zero
Number(text) ==
    IF \E i \in DOMAIN text : text[i] = "."
    THEN LET dot == CHOOSE i \in DOMAIN text : text[i] = "."
         IN Float(DecimalValue(SubSeq(text, 1, dot - 1)))
    ELSE Integer(DecimalValue(text))

scan_number(l) ==
    LET whole == ScanDigits(l)
        n == IF Lexer_peek(whole) = "." /\ Lexer_peek_next(whole) \in Digits
             THEN ScanDigits(Lexer_advance(whole))
             ELSE whole
    IN add_token(n, "NUMBER", Number(Slice(n.source, n.start, n.current)))

PunctuationTokens ==
    ("(" :> "LEFT_PAREN") @@ (")" :> "RIGHT_PAREN") @@ ("{" :> "LEFT_BRACE")
    @@ ("}" :> "RIGHT_BRACE") @@ ("," :> "COMMA") @@ ("." :> "DOT")
    @@ (";" :> "SEMICOLON") @@ ("+" :> "PLUS") @@ ("-" :> "MINUS")
    @@ ("*" :> "STAR") @@ ("%" :> "PERCENT")

\* the operators of one or two characters: alone, and followed by "="
OperatorTokens ==
    ("=" :> <<"EQUAL", "EQUAL_EQUAL">>) @@ ("!" :> <<"BANG", "BANG_EQUAL">>)
    @@ ("<" :> <<"LESS", "LESS_EQUAL">>)
    @@ (">" :> <<"GREATER", "GREATER_EQUAL">>)

scan_token(l) ==
    LET char == l.source[l.current + 1]
        a == Lexer_advance(l)
    IN IF char \in {" ", "\t", "\r", "\n"}
       THEN [a EXCEPT !.start = @ + 1]
       ELSE IF char \in DOMAIN PunctuationTokens
       THEN add_token(a, PunctuationTokens[char], Nil)
       ELSE IF char = "/"
       THEN IF Lexer_match_next(a, "/")
            THEN scan_comment(Lexer_advance(a))
            ELSE add_token(a, "SLASH", Nil)
       ELSE IF char \in DOMAIN OperatorTokens
       THEN IF Lexer_match_next(a, "=")
            THEN add_token(Lexer_advance(a), OperatorTokens[char][2], Nil)
            ELSE add_token(a, OperatorTokens[char][1], Nil)
       ELSE IF char \in {"\"", "'"}
       THEN scan_string(a, char)
       ELSE IF char \in Digits
       THEN scan_number(a)
       ELSE IF char \in Letters \cup {"_"}
       THEN scan_identifier(a)
       ELSE LexerRaise(a, "LexError",
                       "Unknown character found: '" \o char \o "'", a.start)

\* scan_tokens, called by Lexer.__init__
RECURSIVE scan_tokens(_)
scan_tokens(l) ==
    IF l.error # "" THEN l
    ELSE IF ~Lexer_scanned(l) THEN scan_tokens(scan_token(l))
    ELSE [l EXCEPT !.tokens = Append(@, EOF)]

\* Lexer(source)
Lexer(source) == scan_tokens(NewLexer(source))

(***************************************************************************)
(* The parser (parser.py).  A parser state p holds the Parser's fields and *)
(* the ParseError raised, if any, with the token it was raised at.  A      *)
(* parse method is an operator from a parser state to the state after it   *)
(* and the node (or token, or list) it returned.  The statement nodes of   *)
(* the model carry no index.                                               *)
(***************************************************************************)
\* the limit on the parameters of a function and the arguments of a call
MaxArguments == 255

\* TokenType.value of the token types that consume is called with
TokenTypeValue ==
    ("LEFT_PAREN" :> "(") @@ ("RIGHT_PAREN" :> ")") @@ ("LEFT_BRACE" :> "{")
    @@ ("RIGHT_BRACE" :> "}") @@ ("SEMICOLON" :> ";") @@ ("DOT" :> ".")
    @@ ("IDENTIFIER" :> "Identifier")

\* repr of a string
Repr(string) == "'" \o string \o "'"

\* Parser(tokens); the list ends with EOF
NewParser(tokens) ==
    [tokens |-> tokens, index |-> 0, error |-> "", msg |-> "", token |-> EOF]

\* what a parse method hands back
Parsed(p, node) == [p |-> p, node |-> node]

\* raise ParseError(msg, token), or ParseEOFError
ParserRaise(p, error, msg, token) ==
    Parsed([p EXCEPT !.error = error, !.msg = msg, !.token = token], None)

Raised(r) == r.p.error # ""

\* the statements after a call: they run on what the call handed back,
\* unless it raised, and then the exception propagates
Then(r, rest(_)) == IF Raised(r) THEN r ELSE rest(r)

scanned(p) == p.index >= Len(p.tokens) - 1

advance(p) == [p EXCEPT !.index = @ + 1]

get_token(p) == IF scanned(p) THEN EOF ELSE p.tokens[p.index + 1]

previous(p) == p.tokens[p.index]

get_index(p) ==
    IF p.index = 0 THEN get_token(p).index ELSE previous(p).index

peek_next(p, token_type) ==
    get_token(p) # EOF /\ get_token(p).token_type = token_type

\* match_next: whether the token is of one of the types; the parser then
\* advances
match_next(p, token_types) ==
    get_token(p) # EOF /\ get_token(p).token_type \in token_types

consume(p, expected_type, name) ==
    LET expected == IF name # "" THEN name
                    ELSE Repr(TokenTypeValue[expected_type])
        token == get_token(p)
    IN IF token = EOF
       THEN ParserRaise(p, "ParseEOFError",
                        "Expected to find " \o expected \o ", found EOF",
                        token)
       ELSE IF token.token_type # expected_type
       THEN ParserRaise(p, "ParseError",
                        "Expected to find " \o expected \o ", found "
                            \o Repr(token.string),
                        token)
       ELSE Parsed(advance(p), token)

RECURSIVE synchronize(_)
synchronize(p) ==
    IF scanned(p) THEN p
    ELSE IF match_next(p, {"SEMICOLON", "RIGHT_BRACE"}) THEN advance(p)
    ELSE synchronize(advance(p))

\* the token types of the binary operators, from parse_logical_or (1) to
\* parse_factor (6)
BinaryOperators ==
    <<{"OR"}, {"AND"}, {"BANG_EQUAL", "EQUAL_EQUAL"},
      {"GREATER", "GREATER_EQUAL", "LESS", "LESS_EQUAL"},
      {"PLUS", "MINUS"}, {"STAR", "SLASH", "PERCENT"}>>

RECURSIVE parse_declaration(_), parse_var_declaration(_),
          parse_function_declaration(_, _),
          FunctionBody(_, _, _), parse_class_declaration(_),
          MethodLoop(_, _), parse_statement(_), parse_block(_),
          parse_block_statements(_, _), parse_print_stmt(_),
          parse_if_stmt(_), parse_while_stmt(_), parse_for_stmt(_),
          ForCondition(_, _), ForIncrement(_, _, _), parse_return_stmt(_),
          parse_expr_stmt(_), parse_expression(_), parse_assignment(_),
          ParseBinary(_, _), LeftOperand(_, _, _), BinaryLoop(_, _, _),
          parse_unary(_),
          parse_call_or_get(_), CallOrGetLoop(_, _), parse_call(_, _),
          ArgumentSteps(_, _, _), parse_primary(_)

parse_declaration(p) ==
    CASE match_next(p, {"VAR"}) -> parse_var_declaration(advance(p))
      [] match_next(p, {"FUN"}) ->
            parse_function_declaration(advance(p), "function")
      [] match_next(p, {"CLASS"}) -> parse_class_declaration(advance(p))
      [] OTHER -> parse_statement(p)

parse_var_declaration(p) ==
    Then(consume(p, "IDENTIFIER", ""), LAMBDA name :
    IF ~match_next(name.p, {"EQUAL"})
    THEN Then(consume(name.p, "SEMICOLON", ""), LAMBDA semi :
         Parsed(semi.p, VarDeclaration(name.node.string, None)))
    ELSE Then(parse_expression(advance(name.p)), LAMBDA initializer :
         Then(consume(initializer.p, "SEMICOLON", ""), LAMBDA semi :
         Parsed(semi.p,
                VarDeclaration(name.node.string, initializer.node)))))

\* the end of parse_function_declaration: the left brace and the block
FunctionBody(p, function_name, parameters) ==
    Then(consume(p, "LEFT_BRACE", ""), LAMBDA brace :
    Then(parse_block(brace.p), LAMBDA block :
    Parsed(block.p,
           FunctionDef(function_name.string, parameters, block.node.body))))

\* the test of `while self.match_next(TokenType.COMMA)` in case 3 of
\* parse_function_declaration and, when it holds, one turn of the loop;
\* loop.done tells that the test failed and the loop is over
ParameterStep(loop, bracket) ==
    IF ~match_next(loop.p, {"COMMA"}) THEN [loop EXCEPT !.done = TRUE]
    ELSE IF Len(loop.node) >= MaxArguments
    THEN [loop EXCEPT !.p = ParserRaise(advance(loop.p), "ParseError",
                  "More than 255 parameters not allowed in a function definition",
                  bracket).p]
    ELSE IF Raised(consume(advance(loop.p), "IDENTIFIER", "parameter name"))
    THEN [loop EXCEPT !.p = consume(advance(loop.p), "IDENTIFIER",
                                    "parameter name").p]
    ELSE [loop EXCEPT !.p = advance(advance(loop.p)),
                      !.node = Append(@, get_token(advance(loop.p)).string)]

\* at most n turns of the loop, the first half of them and then the rest
RECURSIVE ParameterSteps(_, _, _)
ParameterSteps(loop, n, bracket) ==
    IF n = 0 \/ loop.done \/ Raised(loop) THEN loop
    ELSE IF n = 1 THEN ParameterStep(loop, bracket)
    ELSE ParameterSteps(ParameterSteps(loop, n \div 2, bracket),
                        n - n \div 2, bracket)

\* what a loop hands back: the list it built, or the exception
LoopResult(loop) ==
    IF Raised(loop) THEN Parsed(loop.p, None) ELSE Parsed(loop.p, loop.node)

\* case 3 of parse_function_declaration: the parameters after a comma; a
\* turn consumes a token, so there are no more turns than tokens
ParameterLoop(p, parameters, bracket) ==
    LoopResult(ParameterSteps([p |-> p, node |-> parameters, done |-> FALSE],
                              Len(p.tokens), bracket))

parse_function_declaration(p, kind) ==
    Then(consume(p, "IDENTIFIER", kind \o " name"), LAMBDA function_name :
    Then(consume(function_name.p, "LEFT_PAREN", ""), LAMBDA bracket :
    IF match_next(bracket.p, {"RIGHT_PAREN"})
    THEN FunctionBody(advance(bracket.p), function_name.node, <<>>)
    ELSE Then(consume(bracket.p, "IDENTIFIER", "parameter name"),
              LAMBDA parameter :
         IF match_next(parameter.p, {"RIGHT_PAREN"})
         THEN FunctionBody(advance(parameter.p), function_name.node,
                           <<parameter.node.string>>)
         ELSE Then(ParameterLoop(parameter.p, <<parameter.node.string>>,
                                 bracket.node),
                   LAMBDA parameters :
              Then(consume(parameters.p, "RIGHT_PAREN", ""), LAMBDA paren :
              FunctionBody(paren.p, function_name.node,
                           parameters.node))))))

\* the loop of parse_class_declaration
MethodLoop(p, methods) ==
    IF ~scanned(p) /\ ~peek_next(p, "RIGHT_BRACE")
    THEN Then(parse_function_declaration(p, "method"), LAMBDA method :
         MethodLoop(method.p, Append(methods, method.node)))
    ELSE Parsed(p, methods)

parse_class_declaration(p) ==
    Then(consume(p, "IDENTIFIER", "class name"), LAMBDA name :
    Then(IF match_next(name.p, {"LESS"})
         THEN consume(advance(name.p), "IDENTIFIER", "superclass name")
         ELSE Parsed(name.p, None),
         LAMBDA superclass_name :
    Then(consume(superclass_name.p, "LEFT_BRACE", ""), LAMBDA brace :
    Then(MethodLoop(brace.p, <<>>), LAMBDA methods :
    Then(consume(methods.p, "RIGHT_BRACE", ""), LAMBDA close :
    Parsed(close.p,
           ClassDef(name.node.string,
                    IF superclass_name.node = None THEN None
                    ELSE Variable(superclass_name.node.string, -1),
                    methods.node)))))))

parse_statement(p) ==
    CASE match_next(p, {"LEFT_BRACE"}) -> parse_block(advance(p))
      [] match_next(p, {"PRINT"}) -> parse_print_stmt(advance(p))
      [] match_next(p, {"IF"}) -> parse_if_stmt(advance(p))
      [] match_next(p, {"WHILE"}) -> parse_while_stmt(advance(p))
      [] match_next(p, {"FOR"}) -> parse_for_stmt(advance(p))
      [] match_next(p, {"RETURN"}) -> parse_return_stmt(advance(p))
      [] OTHER -> parse_expr_stmt(p)

parse_block(p) ==
    Then(parse_block_statements(p, <<>>), LAMBDA statements :
    Then(consume(statements.p, "RIGHT_BRACE", ""), LAMBDA close :
    Parsed(close.p, Block(statements.node))))

parse_block_statements(p, statements) ==
    IF ~scanned(p) /\ ~peek_next(p, "RIGHT_BRACE")
    THEN Then(parse_declaration(p), LAMBDA declaration :
         parse_block_statements(declaration.p,
                                Append(statements, declaration.node)))
    ELSE Parsed(p, statements)

parse_print_stmt(p) ==
    Then(parse_expression(p), LAMBDA expression :
    Then(consume(expression.p, "SEMICOLON", ""), LAMBDA semi :
    Parsed(semi.p, PrintStmt(expression.node))))

parse_if_stmt(p) ==
    Then(consume(p, "LEFT_PAREN", ""), LAMBDA open :
    Then(parse_expression(open.p), LAMBDA condition :
    Then(consume(condition.p, "RIGHT_PAREN", ""), LAMBDA close :
    Then(parse_declaration(close.p), LAMBDA body :
    IF match_next(body.p, {"ELSE"})
    THEN Then(parse_declaration(advance(body.p)), LAMBDA else_body :
         Parsed(else_body.p,
                If(condition.node, body.node, else_body.node)))
    ELSE Parsed(body.p, If(condition.node, body.node, None))))))

parse_while_stmt(p) ==
    Then(consume(p, "LEFT_PAREN", ""), LAMBDA open :
    Then(parse_expression(open.p), LAMBDA condition :
    Then(consume(condition.p, "RIGHT_PAREN", ""), LAMBDA close :
    Then(parse_declaration(close.p), LAMBDA body :
    Parsed(body.p, While(condition.node, body.node))))))

\* step 3 of parse_for_stmt, and the body
ForIncrement(p, initializer, condition) ==
    Then(IF match_next(p, {"RIGHT_PAREN"}) THEN Parsed(advance(p), None)
         ELSE Then(parse_expression(p), LAMBDA expression :
              Then(consume(expression.p, "RIGHT_PAREN", ""), LAMBDA close :
              Parsed(close.p, expression.node))),
         LAMBDA increment :
    Then(parse_declaration(increment.p), LAMBDA body :
    Parsed(body.p,
           For(initializer, condition, increment.node, body.node))))

\* step 2 of parse_for_stmt, and what follows
ForCondition(p, initializer) ==
    IF match_next(p, {"SEMICOLON"})
    THEN ForIncrement(advance(p), initializer, None)
    ELSE Then(parse_expression(p), LAMBDA condition :
         Then(consume(condition.p, "SEMICOLON", ""), LAMBDA semi :
         ForIncrement(semi.p, initializer, condition.node)))

parse_for_stmt(p) ==
    Then(consume(p, "LEFT_PAREN", ""), LAMBDA open :
    Then(IF match_next(open.p, {"SEMICOLON"})
         THEN Parsed(advance(open.p), None)
         ELSE IF match_next(open.p, {"VAR"})
         THEN parse_var_declaration(advance(open.p))
         ELSE parse_statement(open.p),
         LAMBDA initializer :
    ForCondition(initializer.p, initializer.node)))

parse_return_stmt(p) ==
    IF match_next(p, {"SEMICOLON"}) THEN Parsed(advance(p), ReturnStmt(None))
    ELSE Then(parse_expression(p), LAMBDA expression :
         Then(consume(expression.p, "SEMICOLON", ""), LAMBDA semi :
         Parsed(semi.p, ReturnStmt(expression.node))))

parse_expr_stmt(p) ==
    Then(parse_expression(p), LAMBDA expression :
    Then(consume(expression.p, "SEMICOLON", ""), LAMBDA semi :
    Parsed(semi.p, ExprStmt(expression.node))))

parse_expression(p) == parse_assignment(p)

\* an assignment whose value is no assignment
parse_assignment_flat(p) ==
    Then(ParseBinary(1, p), LAMBDA expr :
    IF match_next(expr.p, {"EQUAL"})
    THEN Then(ParseBinary(1, advance(expr.p)), LAMBDA value :
         IF expr.node.k = "Variable"
         THEN Parsed(value.p,
                     Assignment(expr.node.name, value.node, expr.node.index))
         ELSE IF expr.node.k = "Get"
         THEN Parsed(value.p,
                     Set(expr.node.object, expr.node.name, value.node,
                         expr.node.index))
         ELSE ParserRaise(value.p, "ParseError",
                          "Invalid assign target: " \o Repr(expr.node.k),
                          get_token(expr.p)))
    ELSE expr)

parse_assignment(p) ==
    Then(ParseBinary(1, p), LAMBDA expr :
    IF match_next(expr.p, {"EQUAL"})
    THEN Then(parse_assignment(advance(expr.p)), LAMBDA value :
         IF expr.node.k = "Variable"
         THEN Parsed(value.p,
                     Assignment(expr.node.name, value.node, expr.node.index))
         ELSE IF expr.node.k = "Get"
         THEN Parsed(value.p,
                     Set(expr.node.object, expr.node.name, value.node,
                         expr.node.index))
         ELSE ParserRaise(value.p, "ParseError",
                          "Invalid assign target: " \o Repr(expr.node.k),
                          get_token(expr.p)))
    ELSE expr)

\* parse_logical_or (level 1), parse_logical_and, parse_equality,
\* parse_comparison, parse_term, parse_factor (level 6).  The left operand
\* of a level is parsed by the next level, that of parse_factor by
\* parse_unary: the first thing parsed is a unary, and then the loops of
\* the levels run from parse_factor up to the level called
ParseBinary(level, p) ==
    LeftOperand(Len(BinaryOperators), level, parse_unary(p))

\* the loops of the levels from parse_factor (or the level `from`) up to
\* the level `to`, on what the level below returned
LeftOperand(from, to, left) ==
    IF Raised(left) \/ from < to THEN left
    ELSE LeftOperand(from - 1, to, BinaryLoop(from, left.p, left.node))

\* the while loop of the six: operators of the level and right operands
BinaryLoop(level, p, left) ==
    IF match_next(p, BinaryOperators[level])
    THEN Then(ParseBinary(level + 1, advance(p)), LAMBDA right :
         BinaryLoop(level, right.p,
                    Binary(left, get_token(p).string, right.node,
                           left.index)))
    ELSE Parsed(p, left)

parse_unary(p) ==
    IF match_next(p, {"MINUS", "BANG"})
    THEN Then(parse_unary(advance(p)), LAMBDA right :
         Parsed(right.p,
                Unary(get_token(p).string, right.node, get_token(p).index)))
    ELSE parse_call_or_get(p)

parse_call_or_get(p) ==
    Then(parse_primary(p), LAMBDA expr : CallOrGetLoop(expr.p, expr.node))

\* the loop of parse_call_or_get
CallOrGetLoop(p, expr) ==
    IF peek_next(p, "LEFT_PAREN")
    THEN Then(parse_call(p, expr), LAMBDA call :
         CallOrGetLoop(call.p, call.node))
    ELSE IF match_next(p, {"DOT"})
    THEN Then(consume(advance(p), "IDENTIFIER", "property name"),
              LAMBDA name :
         CallOrGetLoop(name.p, Get(expr, name.node.string, expr.index)))
    ELSE Parsed(p, expr)

\* one turn of the loop `while self.match_next(TokenType.COMMA)` in case 3
\* of parse_call, given what parse_expression handed back
ArgumentTurn(loop, argument) ==
    IF Raised(argument) THEN [loop EXCEPT !.p = argument.p]
    ELSE [loop EXCEPT !.p = argument.p, !.node = Append(@, argument.node)]

\* the loop without the check of the number of arguments
ArgumentStep_unlimited(loop, bracket) ==
    IF ~match_next(loop.p, {"COMMA"}) THEN [loop EXCEPT !.done = TRUE]
    ELSE ArgumentTurn(loop, parse_expression(advance(loop.p)))

\* the test of the loop and, when it holds, one turn
ArgumentStep(loop, bracket) ==
    IF ~match_next(loop.p, {"COMMA"}) THEN [loop EXCEPT !.done = TRUE]
    ELSE IF Len(loop.node) >= MaxArguments
    THEN [loop EXCEPT !.p = ParserRaise(advance(loop.p), "ParseError",
                  "More than 255 arguments not allowed in a function call",
                  bracket).p]
    ELSE ArgumentTurn(loop, parse_expression(advance(loop.p)))

\* at most n turns of the loop, the first half of them and then the rest
ArgumentSteps(loop, n, bracket) ==
    IF n = 0 \/ loop.done \/ Raised(loop) THEN loop
    ELSE IF n = 1 THEN ArgumentStep(loop, bracket)
    ELSE ArgumentSteps(ArgumentSteps(loop, n \div 2, bracket),
                       n - n \div 2, bracket)

\* case 3 of parse_call: the arguments after a comma
ArgumentLoop(p, arguments, bracket) ==
    LoopResult(ArgumentSteps([p |-> p, node |-> arguments, done |-> FALSE],
                             Len(p.tokens), bracket))

\* parse_call; bracket is the left parenthesis, which the parser is at
parse_call(p, callee) ==
    IF ~match_next(p, {"LEFT_PAREN"}) THEN Parsed(p, callee)
    ELSE IF match_next(advance(p), {"RIGHT_PAREN"})
    THEN parse_call(advance(advance(p)), Call(callee, <<>>, callee.index))
    ELSE Then(parse_expression(advance(p)), LAMBDA argument :
         IF match_next(argument.p, {"RIGHT_PAREN"})
         THEN parse_call(advance(argument.p),
                         Call(callee, <<argument.node>>, callee.index))
         ELSE Then(ArgumentLoop(argument.p, <<argument.node>>, get_token(p)),
                   LAMBDA arguments :
              Then(consume(arguments.p, "RIGHT_PAREN", ""), LAMBDA close :
              parse_call(close.p,
                         Call(callee, arguments.node, callee.index)))))

parse_primary(p) ==
    CASE scanned(p) ->
            ParserRaise(p, "ParseEOFError",
                        "Unexpected end of file while parsing", get_token(p))
      [] match_next(p, {"STRING", "NUMBER"}) ->
            Parsed(advance(p),
                   Literal(get_token(p).value, get_token(p).index))
      [] match_next(p, {"TRUE"}) ->
            Parsed(advance(p), Literal(Boolean(TRUE), get_index(advance(p))))
      [] match_next(p, {"FALSE"}) ->
            Parsed(advance(p), Literal(Boolean(FALSE), get_index(advance(p))))
      [] match_next(p, {"NIL"}) ->
            Parsed(advance(p), Literal(Nil, get_index(advance(p))))
      [] match_next(p, {"THIS"}) ->
            Parsed(advance(p), This(get_index(advance(p))))
      [] match_next(p, {"SUPER"}) ->
            Then(consume(advance(p), "DOT", ""), LAMBDA dot :
            Then(consume(dot.p, "IDENTIFIER", "method name"),
                 LAMBDA method_token :
            Parsed(method_token.p,
                   Super(Variable(method_token.node.string, -1),
                         get_index(method_token.p)))))
      [] match_next(p, {"IDENTIFIER"}) ->
            Parsed(advance(p),
                   Variable(get_token(p).string, get_token(p).index))
      [] match_next(p, {"LEFT_PAREN"}) ->
            Then(parse_expression(advance(p)), LAMBDA expression :
            Then(consume(expression.p, "RIGHT_PAREN", ""), LAMBDA close :
            Parsed(close.p,
                   Grouping(expression.node, get_index(advance(p))))))
      [] OTHER ->
            ParserRaise(p, "ParseError",
                        "Unexpected token: " \o Repr(get_token(p).string),
                        get_token(p))

\* a run of Parser.parse: the parser, the mode, the statements and the
\* errors collected so far, and whether a ParseError left parse
NewParse(tokens, mode) ==
    [p |-> NewParser(tokens), mode |-> mode, body |-> <<>>, errors |-> <<>>,
     raised |-> FALSE, returned |-> FALSE]

\* the ParseError raised, as an exception object
ParseErrorOf(p) ==
    [ty |-> p.error, msg |-> p.msg, index |-> p.token.index,
     token |-> p.token]

\* the state after the exception was caught
Caught(p) == [p EXCEPT !.error = "", !.msg = "", !.token = EOF]

\* a turn that stores the error and does not synchronize
TurnOutcome_no_synchronize(ps, declaration) ==
    IF ~Raised(declaration)
    THEN [ps EXCEPT !.p = declaration.p,
                    !.body = Append(@, declaration.node)]
    ELSE IF ps.mode = "repl"
    THEN [ps EXCEPT !.p = declaration.p, !.raised = TRUE]
    ELSE [ps EXCEPT !.errors = Append(@, ParseErrorOf(declaration.p)),
                    !.p = Caught(declaration.p)]

\* the outcome of one turn of the loop of parse, given what
\* parse_declaration handed back
TurnOutcome(ps, declaration) ==
    IF ~Raised(declaration)
    THEN [ps EXCEPT !.p = declaration.p,
                    !.body = Append(@, declaration.node)]
    ELSE IF ps.mode = "repl"
    THEN [ps EXCEPT !.p = declaration.p, !.raised = TRUE]
    ELSE [ps EXCEPT !.errors = Append(@, ParseErrorOf(declaration.p)),
                    !.p = synchronize(Caught(declaration.p))]

\* one turn of the loop of parse
ParseTurn(ps) == TurnOutcome(ps, parse_declaration(ps.p))

\* the loop of parse, and its return
RECURSIVE ParseLoop(_)
ParseLoop(ps) ==
    IF ps.raised THEN ps
    ELSE IF scanned(ps.p) THEN [ps EXCEPT !.returned = TRUE]
    ELSE ParseLoop(ParseTurn(ps))

\* what parse hands back once its loop is over
ParseResult(ps) ==
    [program |-> Program(ps.body), errors |-> ps.errors,
     raised |-> IF ps.raised THEN ParseErrorOf(ps.p) ELSE None]

\* Parser(tokens).parse(mode): program and errors, or the ParseError raised
parse(tokens, mode) == ParseResult(ParseLoop(NewParse(tokens, mode)))

(***************************************************************************)
(* The resolver (resolver.py).  A resolver state r holds the Resolver's    *)
(* fields, the interpreter's side table `locals` (a set of [expr, depth]   *)
(* entries, at most one per expression) and the ParseError raised, if any. *)
(***************************************************************************)
NewResolver(interpreter_locals) ==
    [scope_stack |-> <<>>, current_scope |-> "global",
     function_scope |-> "global", class_scope |-> "global",
     locals |-> interpreter_locals, error |-> ""]

\* Interpreter.resolve: self.locals[expr] = depth
InterpreterResolve(locals_, expr, depth) ==
    {e \in locals_ : e.expr # expr} \cup {[expr |-> expr, depth |-> depth]}

\* self.locals.get(expr), -1 standing for None
LocalsGet(locals_, expr) ==
    IF \E e \in locals_ : e.expr = expr
    THEN (CHOOSE e \in locals_ : e.expr = expr).depth
    ELSE -1

\* entering `with self.new_scope(scope_type)`
EnterScope(r, scope_type) ==
    [r EXCEPT !.current_scope = scope_type,
              !.function_scope =
                  IF scope_type = "function" THEN scope_type ELSE @,
              !.class_scope =
                  IF scope_type \in {"class", "subclass"} THEN scope_type ELSE @,
              !.scope_stack = Append(@, {})]

\* leaving `with self.new_scope(scope_type)`; an exception raised inside
\* the with-block skips the code after the yield
ExitScope(r, scope_type, old_scope) ==
    IF r.error # "" THEN r
    ELSE [r EXCEPT !.scope_stack = SubSeq(@, 1, Len(@) - 1),
                   !.current_scope = old_scope,
                   !.function_scope =
                       IF scope_type = "function" THEN old_scope ELSE @,
                   !.class_scope =
                       IF scope_type \in {"class", "subclass"}
                       THEN old_scope ELSE @]

\* scope.add(name) on the innermost scope
ScopeAdd(r, name) ==
    [r EXCEPT !.scope_stack[Len(r.scope_stack)] = @ \cup {name}]

\* a define that never checks the innermost scope
ResolverDefine_unchecked(r, name) ==
    IF r.error # "" \/ r.current_scope = "global" THEN r
    ELSE ScopeAdd(r, name)

\* Resolver.define
ResolverDefine(r, name) ==
    IF r.error # "" THEN r
    ELSE IF r.current_scope = "global" THEN r
    ELSE IF name \in r.scope_stack[Len(r.scope_stack)]
    THEN [r EXCEPT !.error = "already defined in this scope"]
    ELSE ScopeAdd(r, name)

RECURSIVE ResolverDefineAll(_, _)
ResolverDefineAll(r, names) ==
    IF names = <<>> THEN r
    ELSE ResolverDefineAll(ResolverDefine(r, Head(names)), Tail(names))

\* Resolver.resolve_local: the scope stack is walked from the innermost scope
resolve_local(r, expr, name) ==
    IF r.error # "" THEN r
    ELSE LET n == Len(r.scope_stack)
             hits == {d \in 0..(n - 1) : name \in r.scope_stack[n - d]}
         IN IF hits = {} THEN r
            ELSE LET depth == CHOOSE d \in hits : \A d2 \in hits : d <= d2
                 IN [r EXCEPT !.locals = InterpreterResolve(@, expr, depth)]

RECURSIVE Resolve(_, _), ResolveSeq(_, _), ResolveMethods(_, _)

ResolveSeq(r, items) ==
    IF items = <<>> \/ r.error # "" THEN r
    ELSE ResolveSeq(Resolve(r, Head(items)), Tail(items))

\* the loop over class_def.methods in Resolver.visit_ClassDef
ResolveMethods(r, methods) ==
    IF methods = <<>> \/ r.error # "" THEN r
    ELSE LET method == Head(methods)
             r1 == ResolverDefine(r, method.name)
             old == r1.current_scope
             r2 == EnterScope(r1, "function")
             r3 == ResolverDefineAll(r2, method.parameters)
             r4 == ResolveSeq(r3, method.body)
         IN IF r1.error # "" THEN r1
            ELSE ResolveMethods(ExitScope(r4, "function", old), Tail(methods))

\* Resolver.resolve on one node: the visit_* method of its class, or the
\* node's children in field order when the class has no visitor
Resolve(r, node) ==
    IF r.error # "" THEN r
    ELSE CASE node.k = "None" -> r
      [] node.k = "Block" ->
            LET old == r.current_scope
            IN ExitScope(ResolveSeq(EnterScope(r, "block"), node.body),
                         "block", old)
      [] node.k = "VarDeclaration" ->
            ResolverDefine(Resolve(r, node.initializer), node.name)
      [] node.k = "FunctionDef" ->
            LET r1 == ResolverDefine(r, node.name)
                old == r1.current_scope
                r2 == EnterScope(r1, "function")
                r3 == ResolverDefineAll(r2, node.parameters)
            IN IF r1.error # "" THEN r1
               ELSE ExitScope(ResolveSeq(r3, node.body), "function", old)
      [] node.k = "ClassDef" ->
            LET r1 == ResolverDefine(r, node.name)
                old1 == r1.current_scope
                r2 == EnterScope(r1, "block")
                r3 == IF node.superclass # None THEN ScopeAdd(r2, "super")
                      ELSE r2
                scope_type == IF node.superclass # None THEN "subclass"
                              ELSE "class"
                old2 == r3.current_scope
                r4 == ScopeAdd(EnterScope(r3, scope_type), "this")
                r5 == ResolveMethods(r4, node.methods)
            IN IF r1.error # "" THEN r1
               ELSE IF node.superclass # None
                       /\ node.name = node.superclass.name
               THEN [r1 EXCEPT !.error = "A class cannot inherit from itself"]
               ELSE ExitScope(ExitScope(r5, scope_type, old2), "block", old1)
      [] node.k = "Variable" -> resolve_local(r, node, node.name)
      [] node.k = "Assignment" ->
            resolve_local(Resolve(r, node.value), node, node.name)
      [] node.k = "ReturnStmt" ->
            IF r.function_scope # "function"
            THEN [r EXCEPT !.error = "Cannot return outside of a function"]
            ELSE Resolve(r, node.value)
      [] node.k = "This" ->
            IF r.class_scope # "class"
            THEN [r EXCEPT !.error = "Cannot use 'this' outside of a class"]
            ELSE resolve_local(r, node, "this")
      [] node.k = "Super" ->
            IF r.class_scope = "class"
            THEN [r EXCEPT !.error =
                      "Cannot use 'super' in a class with no superclass"]
            ELSE IF r.class_scope # "subclass"
            THEN [r EXCEPT !.error = "Cannot use 'super' outside of a class"]
            ELSE resolve_local(r, node, "super")
      [] node.k = "Literal" -> r
      [] node.k = "Unary" -> Resolve(r, node.right)
      [] node.k = "Binary" -> Resolve(Resolve(r, node.left), node.right)
      [] node.k = "Grouping" -> Resolve(r, node.expression)
      [] node.k = "Call" ->
            ResolveSeq(Resolve(r, node.callee), node.arguments)
      [] node.k = "Get" -> Resolve(r, node.object)
      [] node.k = "Set" -> Resolve(Resolve(r, node.object), node.value)
      [] node.k = "Print" -> Resolve(r, node.value)
      [] node.k = "If" ->
            Resolve(Resolve(Resolve(r, node.condition), node.body),
                    node.else_body)
      [] node.k = "While" -> Resolve(Resolve(r, node.condition), node.body)
      [] node.k = "For" ->
            Resolve(Resolve(Resolve(Resolve(r, node.initializer),
                                    node.condition), node.increment),
                    node.body)
      [] node.k = "ExprStmt" -> Resolve(r, node.expression)
      [] node.k = "Program" -> ResolveSeq(r, node.body)

\* Resolver(interpreter).visit(tree)
ResolverVisit(interpreter_locals, tree) ==
    ResolveSeq(NewResolver(interpreter_locals), tree.body)

(***************************************************************************)
(* The interpreter's state.                                                *)
(***************************************************************************)
VARIABLES
    mode,         \* "file" (run) or "repl" (run_interactive)
    phase,        \* "idle": waiting for a compilation unit; "running"; "exited"
    ninputs,      \* compilation units read so far
    tree,         \* the compilation unit being run, or run last
    code,         \* its text, when the unit was given as text
    lines,        \* the lines run_interactive has buffered
    parser,       \* the run of Parser.parse on the unit: see NewParse
    lexer,        \* a Lexer scanning a source step by step: see NewLexer
    locals,       \* Interpreter.locals, the resolution table
    frames,       \* heap of Environment objects [vars, enclosing]; 0 is None
    environment,  \* Interpreter.environment
    functions,    \* heap of LoxFunction objects [declaration, closure]
    classes,      \* heap of LoxClass objects [name, superclass, methods]
    instances,    \* heap of LoxInstance objects [class_object, fields]
    stack,        \* host call stack of visit_* activations, innermost last
    ret,          \* what the activation that ended last handed to its caller
    output,       \* values printed while running the current unit
    result,       \* how the current unit ended, as the driver reported it
    log,          \* class and index of the expressions evaluated, in order
    last,         \* the binary operation completed last
    lastTest      \* the truthiness test made last

vars == <<mode, phase, ninputs, tree, code, lines, parser, lexer, locals,
          frames, environment, functions, classes, instances, stack, ret, output,
          result, log, last, lastTest>>

driverVars == <<mode, phase, ninputs, tree, code, lines, parser, lexer,
                locals, result>>
heapVars == <<frames, functions, classes, instances>>
probeVars == <<last, lastTest>>

\* Interpreter.globals: the first Environment created
globals == 1

EmptyMap == [x \in {} |-> Nil]

\* Environment(enclosing)
Environment(enclosing) == [vars |-> EmptyMap, enclosing |-> enclosing]

\* create_globals
create_globals ==
    [vars |-> ("clock" :> NativeClock), enclosing |-> 0]

\* Environment.define on the frame e of heap fr
EnvDefine(fr, e, variable, value) ==
    [fr EXCEPT ![e].vars = (variable :> value) @@ @]

\* Environment.ancestor; 0 when `assert environment.enclosing is not None`
\* fails on the way
RECURSIVE ancestor(_, _)
ancestor(e, depth) ==
    IF depth <= 0 THEN e
    ELSE IF frames[e].enclosing = 0 THEN 0
    ELSE ancestor(frames[e].enclosing, depth - 1)

(***************************************************************************)
(* Activations and what they hand back.                                    *)
(***************************************************************************)
Frame(node) == [k |-> node.k, n |-> node, pc |-> 0, vs |-> <<>>, env |-> 0]

NoProbe == [op |-> "", left |-> Nil, right |-> Nil, result |-> Nil,
            right_evaluated |-> FALSE]
NoTest == [ctx |-> "", value |-> Nil, outcome |-> ""]

\* ret.st: "go" a new activation starts; "val" an activation returned v;
\* "exc" an exception of class ty is propagating.  via and rv record how a
\* call ended: "return" with the value rv of the return statement, or "end".
Go == [st |-> "go", ty |-> "", v |-> Nil, msg |-> "", index |-> -1,
       expected |-> -1, got |-> -1, via |-> "", rv |-> Nil]
Val(value) == [Go EXCEPT !.st = "val", !.v = value]
Exc(ty, msg, index) ==
    [Go EXCEPT !.st = "exc", !.ty = ty, !.msg = msg, !.index = index]
\* raise InterpreterError(message, node)
InterpreterError(msg, node) == Exc("InterpreterError", msg, node.index)
\* raise Return(value)
ReturnSignal(value) == [Go EXCEPT !.st = "exc", !.ty = "Return", !.v = value]
NotImplemented == Exc("NotImplementedError", "", -1)

top == stack[Len(stack)]
Pop == SubSeq(stack, 1, Len(stack) - 1)
ReplaceTop(frame) == [stack EXCEPT ![Len(stack)] = frame]

\* the activation of kind k is innermost and no exception is propagating
At(k) == phase = "running" /\ stack # <<>> /\ top.k = k /\ ret.st # "exc"

\* the innermost activation ends and hands r to its caller
Return(r) == stack' = Pop /\ ret' = r /\ log' = log
\* self.evaluate(child): Interpreter.evaluate
Evaluate(frame, child) ==
    /\ stack' = Append(ReplaceTop(frame), Frame(child))
    /\ ret' = Go
    /\ log' = Append(log, <<child.k, child.index>>)
\* self.execute(child): Interpreter.execute
Execute(frame, child) ==
    /\ stack' = Append(ReplaceTop(frame), Frame(child))
    /\ ret' = Go
    /\ log' = log

\* Environment.get_at
get_at(e, depth, name) ==
    LET a == ancestor(e, depth)
    IN IF a = 0 THEN Exc("AssertionError", "", -1)
       ELSE IF name \notin DOMAIN frames[a].vars
       THEN Exc("EnvironmentLookupError", "Undefined variable", -1)
       ELSE Val(frames[a].vars[name])

\* Interpreter.lookup
lookup(name, expr) ==
    LET depth == LocalsGet(locals, expr)
    IN IF depth # -1 THEN get_at(environment, depth, name)
       ELSE IF name \in DOMAIN frames[globals].vars
       THEN Val(frames[globals].vars[name])
       ELSE InterpreterError("Undefined variable", expr)

\* the outcome of is_truthy(value) as a probe
TestOf(ctx, value) ==
    [ctx |-> ctx, value |-> value,
     outcome |-> IF TruthyRaises(value) THEN "raised"
                 ELSE IF is_truthy(value) THEN "truthy" ELSE "falsy"]

(***************************************************************************)
(* Expressions.                                                            *)
(***************************************************************************)
visit_Literal ==
    /\ At("Literal")
    /\ Return(Val(top.n.value))
    /\ UNCHANGED <<driverVars, heapVars, environment, output, probeVars>>

visit_Variable ==
    /\ At("Variable")
    /\ Return(lookup(top.n.name, top.n))
    /\ UNCHANGED <<driverVars, heapVars, environment, output, probeVars>>

visit_This ==
    /\ At("This")
    /\ Return(lookup("this", top.n))
    /\ UNCHANGED <<driverVars, heapVars, environment, output, probeVars>>

visit_Grouping ==
    /\ At("Grouping")
    /\ IF top.pc = 0
       THEN Evaluate([top EXCEPT !.pc = 1], top.n.expression)
       ELSE Return(Val(ret.v))
    /\ UNCHANGED <<driverVars, heapVars, environment, output, probeVars>>

visit_Assignment ==
    /\ At("Assignment")
    /\ UNCHANGED <<driverVars, functions, classes, instances, environment,
                   output, probeVars>>
    /\ IF top.pc = 0
       THEN /\ Evaluate([top EXCEPT !.pc = 1], top.n.value)
            /\ frames' = frames
       ELSE LET value == ret.v
                variable == top.n.name
                depth == LocalsGet(locals, top.n)
                a == ancestor(environment, depth)
            IN IF depth # -1
               THEN \* self.environment.assign_at(depth, variable, value)
                    IF a = 0
                    THEN /\ Return(Exc("AssertionError", "", -1))
                         /\ frames' = frames
                    ELSE /\ Return(Val(value))
                         /\ frames' = EnvDefine(frames, a, variable, value)
               ELSE \* self.globals.assign(variable, value)
                    IF variable \notin DOMAIN frames[globals].vars
                    THEN /\ Return(InterpreterError(
                                "Assigning to variable before declaration",
                                top.n))
                         /\ frames' = frames
                    ELSE /\ Return(Val(value))
                         /\ frames' = EnvDefine(frames, globals, variable, value)

visit_Unary ==
    /\ At("Unary")
    /\ UNCHANGED <<driverVars, heapVars, environment, output, last>>
    /\ IF top.n.operator \notin {"-", "!"}
       THEN Return(NotImplemented) /\ lastTest' = lastTest
       ELSE IF top.pc = 0
       THEN /\ Evaluate([top EXCEPT !.pc = 1], top.n.right)
            /\ lastTest' = lastTest
       ELSE LET right_value == ret.v
            IN IF top.n.operator = "-"
               THEN /\ lastTest' = lastTest
                    /\ IF ~IsNumber(right_value)
                       THEN IF TypeNameRaises(right_value)
                            THEN Return(NotImplemented)
                            ELSE Return(InterpreterError(
                                     "Expected 'Number' for unary '-'", top.n))
                       ELSE Return(Val([right_value EXCEPT !.v = 0 - @]))
               ELSE /\ lastTest' = TestOf("!", right_value)
                    /\ IF TruthyRaises(right_value)
                       THEN Return(NotImplemented)
                       ELSE Return(Val(Boolean(~is_truthy(right_value))))

\* the type of the result of an arithmetic operator other than `/`
NumType(a, b) ==
    IF a.t = "Integer" /\ b.t = "Integer" THEN "Integer" ELSE "Float"

\* the host's % on numbers: the result has the sign of the divisor
PyMod(a, b) == IF b > 0 THEN a % b ELSE 0 - ((0 - a) % (0 - b))

\* the part of visit_Binary after both operands are evaluated and the
\* operator is neither `and` nor `or`
BinaryResult(node, l, r) ==
    LET op == node.operator
        num(n) == [t |-> NumType(l, r), v |-> n, s |-> ""]
    IN IF op = "==" THEN Val(Boolean(PyEq(l, r)))
       ELSE IF op = "!=" THEN Val(Boolean(~PyEq(l, r)))
       ELSE IF l.t = "String" /\ r.t = "String" /\ op = "+"
       THEN Val(String(l.s \o r.s))
       ELSE IF IsNumber(l) /\ IsNumber(r)
               /\ op \in {"+", "-", "*", "/", "%", ">", ">=", "<", "<="}
       THEN CASE op = "+" -> Val(num(l.v + r.v))
              [] op = "-" -> Val(num(l.v - r.v))
              [] op = "*" -> Val(num(l.v * r.v))
              [] op = "/" ->
                    IF r.v = 0
                    THEN InterpreterError("Division by zero", node.right)
                    ELSE Val(Float(l.v \div r.v))
              [] op = "%" ->
                    IF r.v = 0 THEN Exc("ZeroDivisionError", "", -1)
                    ELSE Val(num(PyMod(l.v, r.v)))
              [] op = ">" -> Val(Boolean(l.v > r.v))
              [] op = ">=" -> Val(Boolean(l.v >= r.v))
              [] op = "<" -> Val(Boolean(l.v < r.v))
              [] op = "<=" -> Val(Boolean(l.v <= r.v))
       ELSE IF TypeNameRaises(l) \/ TypeNameRaises(r)
       THEN NotImplemented
       ELSE InterpreterError("Unsupported types", node)

\* operators that never return early
ShortCircuits_never(op, left_value) == FALSE

\* the early returns of `and` and `or`
ShortCircuits(op, left_value) ==
    \/ op = "or" /\ is_truthy(left_value)
    \/ op = "and" /\ ~is_truthy(left_value)

visit_Binary ==
    /\ At("Binary")
    /\ UNCHANGED <<driverVars, heapVars, environment, output>>
    /\ LET op == top.n.operator
           probe(l, r, res, both) ==
               [op |-> op, left |-> l, right |-> r, result |-> res,
                right_evaluated |-> both]
       IN IF top.pc = 0
          THEN /\ Evaluate([top EXCEPT !.pc = 1], top.n.left)
               /\ UNCHANGED probeVars
          ELSE IF top.pc = 1
          THEN LET left_value == ret.v
               IN IF op \in {"or", "and"} /\ TruthyRaises(left_value)
                  THEN /\ Return(NotImplemented)
                       /\ lastTest' = TestOf(op, left_value)
                       /\ last' = last
                  ELSE IF ShortCircuits(op, left_value)
                  THEN /\ Return(Val(left_value))
                       /\ lastTest' = TestOf(op, left_value)
                       /\ last' = probe(left_value, Nil, left_value, FALSE)
                  ELSE /\ Evaluate([top EXCEPT !.pc = 2,
                                               !.vs = <<left_value>>],
                                   top.n.right)
                       /\ lastTest' = IF op \in {"or", "and"}
                                      THEN TestOf(op, left_value)
                                      ELSE lastTest
                       /\ last' = last
          ELSE LET left_value == top.vs[1]
                   right_value == ret.v
                   res == IF op \in {"and", "or"} THEN Val(right_value)
                          ELSE BinaryResult(top.n, left_value, right_value)
               IN /\ Return(res)
                  /\ lastTest' = lastTest
                  /\ last' = IF res.st = "val"
                             THEN probe(left_value, right_value, res.v, TRUE)
                             ELSE last

(***************************************************************************)
(* Statements.                                                             *)
(***************************************************************************)
visit_Print ==
    /\ At("Print")
    /\ IF top.pc = 0
       THEN Evaluate([top EXCEPT !.pc = 1], top.n.value) /\ output' = output
       ELSE Return(Val(Nil)) /\ output' = Append(output, ret.v)
    /\ UNCHANGED <<driverVars, heapVars, environment, probeVars>>

visit_ExprStmt ==
    /\ At("ExprStmt")
    /\ IF top.pc = 0
       THEN Evaluate([top EXCEPT !.pc = 1], top.n.expression)
       ELSE Return(Val(Nil))
    /\ UNCHANGED <<driverVars, heapVars, environment, output, probeVars>>

visit_VarDeclaration ==
    /\ At("VarDeclaration")
    /\ IF top.pc = 0 /\ top.n.initializer # None
       THEN /\ Evaluate([top EXCEPT !.pc = 1], top.n.initializer)
            /\ frames' = frames
       ELSE LET value == IF top.n.initializer = None THEN Nil ELSE ret.v
            IN /\ frames' = EnvDefine(frames, environment, top.n.name, value)
               /\ Return(Val(Nil))
    /\ UNCHANGED <<driverVars, functions, classes, instances, environment,
                   output, probeVars>>

\* a block that runs its statements in the enclosing frame
child_environment_shared == environment

\* the identity of `child_environment = Environment(self.environment)`
child_environment == Len(frames) + 1

\* Interpreter.visit_Block with the loop of Interpreter.visit; the frame's
\* env is own_environment
visit_Block ==
    /\ At("Block")
    /\ IF top.pc = 0
       THEN /\ frames' = Append(frames, Environment(environment))
            /\ environment' = child_environment
            /\ IF top.n.body # <<>>
               THEN Execute([top EXCEPT !.pc = 1, !.env = environment],
                            top.n.body[1])
               ELSE /\ stack' = ReplaceTop([top EXCEPT !.pc = 1,
                                                       !.env = environment])
                    /\ ret' = Val(Nil)
                    /\ log' = log
       ELSE /\ frames' = frames
            /\ IF top.pc < Len(top.n.body)
               THEN /\ Execute([top EXCEPT !.pc = @ + 1],
                               top.n.body[top.pc + 1])
                    /\ environment' = environment
               ELSE /\ Return(Val(Nil))
                    /\ environment' = top.env
    /\ UNCHANGED <<driverVars, functions, classes, instances, output,
                   probeVars>>

visit_If ==
    /\ At("If")
    /\ UNCHANGED <<driverVars, heapVars, environment, output, last>>
    /\ IF top.pc = 0
       THEN /\ Evaluate([top EXCEPT !.pc = 1], top.n.condition)
            /\ lastTest' = lastTest
       ELSE IF top.pc = 1
       THEN /\ lastTest' = TestOf("if", ret.v)
            /\ IF TruthyRaises(ret.v) THEN Return(NotImplemented)
               ELSE IF is_truthy(ret.v)
               THEN Execute([top EXCEPT !.pc = 2], top.n.body)
               ELSE IF top.n.else_body # None
               THEN Execute([top EXCEPT !.pc = 2], top.n.else_body)
               ELSE Return(Val(Nil))
       ELSE /\ Return(Val(Nil))
            /\ lastTest' = lastTest

visit_While ==
    /\ At("While")
    /\ UNCHANGED <<driverVars, heapVars, environment, output, last>>
    /\ IF top.pc = 1
       THEN /\ lastTest' = TestOf("while", ret.v)
            /\ IF TruthyRaises(ret.v) THEN Return(NotImplemented)
               ELSE IF is_truthy(ret.v)
               THEN Execute([top EXCEPT !.pc = 2], top.n.body)
               ELSE Return(Val(Nil))
       ELSE /\ Evaluate([top EXCEPT !.pc = 1], top.n.condition)
            /\ lastTest' = lastTest

visit_For ==
    /\ At("For")
    /\ UNCHANGED <<driverVars, heapVars, environment, output, last>>
    /\ LET test == IF top.n.condition = None
                   THEN Execute([top EXCEPT !.pc = 3], top.n.body)
                   ELSE Evaluate([top EXCEPT !.pc = 2], top.n.condition)
       IN IF top.pc = 0 /\ top.n.initializer # None
          THEN /\ Execute([top EXCEPT !.pc = 1], top.n.initializer)
               /\ lastTest' = lastTest
          ELSE IF top.pc = 2
          THEN /\ lastTest' = TestOf("for", ret.v)
               /\ IF TruthyRaises(ret.v) THEN Return(NotImplemented)
                  ELSE IF is_truthy(ret.v)
                  THEN Execute([top EXCEPT !.pc = 3], top.n.body)
                  ELSE Return(Val(Nil))
          ELSE IF top.pc = 3 /\ top.n.increment # None
          THEN /\ Evaluate([top EXCEPT !.pc = 4], top.n.increment)
               /\ lastTest' = lastTest
          ELSE /\ test
               /\ lastTest' = lastTest

visit_FunctionDef ==
    /\ At("FunctionDef")
    /\ functions' = Append(functions,
                           [declaration |-> top.n, closure |-> environment])
    /\ frames' = EnvDefine(frames, environment, top.n.name,
                           FunctionValue(Len(functions) + 1))
    /\ Return(Val(Nil))
    /\ UNCHANGED <<driverVars, classes, instances, environment, output,
                   probeVars>>

visit_ReturnStmt ==
    /\ At("ReturnStmt")
    /\ IF top.pc = 0 /\ top.n.value # None
       THEN Evaluate([top EXCEPT !.pc = 1], top.n.value)
       ELSE Return(ReturnSignal(IF top.n.value = None THEN Nil ELSE ret.v))
    /\ UNCHANGED <<driverVars, heapVars, environment, output, probeVars>>

(***************************************************************************)
(* Functions, classes and calls.                                           *)
(***************************************************************************)
\* the bindings `environment.define(parameter.string, argument)` makes over
\* zip(parameters, arguments)
BindParameters(parameters, arguments) ==
    LET n == IF Len(parameters) < Len(arguments) THEN Len(parameters)
             ELSE Len(arguments)
        lastOf(p) == CHOOSE i \in 1..n :
                        /\ parameters[i] = p
                        /\ \A j \in 1..n : parameters[j] = p => j <= i
    IN [p \in {parameters[i] : i \in 1..n} |-> arguments[lastOf(p)]]

\* LoxClass.find_method; 0 stands for None
\* a method lookup that stops at the class itself
find_method_own(cid, name) ==
    IF name \in DOMAIN classes[cid].methods THEN classes[cid].methods[name]
    ELSE 0

RECURSIVE find_method(_, _)
find_method(cid, name) ==
    IF name \in DOMAIN classes[cid].methods THEN classes[cid].methods[name]
    ELSE IF classes[cid].superclass # 0
    THEN find_method(classes[cid].superclass, name)
    ELSE 0

\* self.methods.get("init") of LoxClass.call and LoxClass.arity; 0 is None
Initializer(cid) ==
    IF "init" \in DOMAIN classes[cid].methods
    THEN classes[cid].methods["init"] ELSE 0

\* an arity that ignores the initializer of a class
arity_no_init(function) ==
    IF function.t = "Function"
    THEN Len(functions[function.v].declaration.parameters)
    ELSE 0

\* LoxFunction.arity, LoxClass.arity, NativeClock.arity
arity(function) ==
    IF function.t = "Function"
    THEN Len(functions[function.v].declaration.parameters)
    ELSE IF function.t = "Class"
    THEN IF Initializer(function.v) = 0 THEN 0
         ELSE Len(functions[Initializer(function.v)].declaration.parameters)
    ELSE 0

\* the activation of LoxFunction.call: n is the declaration, env the
\* parent_enviroment, vs the function object and the environment created
CallFrame(fid, declaration, created) ==
    [k |-> "LoxFunction.call", n |-> declaration, pc |-> 0,
     vs |-> <<FunctionValue(fid), Integer(created)>>, env |-> environment]

\* a call frame parented at the caller's frame
CallEnvironment_dynamic(fn, arguments) ==
    [vars |-> BindParameters(fn.declaration.parameters, arguments),
     enclosing |-> environment]

\* the Environment a call of the function object fn creates
CallEnvironment(fn, arguments) ==
    [vars |-> BindParameters(fn.declaration.parameters, arguments),
     enclosing |-> fn.closure]

\* LoxFunction.bind: the Environment and the LoxFunction it creates
BindEnvironment(fn, instance) ==
    [vars |-> ("this" :> instance), enclosing |-> fn.closure]
BoundFunction(fn, env) == [declaration |-> fn.declaration, closure |-> env]

\* a call that checks callability before it evaluates the arguments
CallStage_eager(node, vs) ==
    IF ~is_lox_callable(vs[1]) THEN "not callable"
    ELSE IF Len(vs) - 1 < Len(node.arguments) THEN "argument"
    ELSE IF arity(vs[1]) # Len(vs) - 1 THEN "arity"
    ELSE "invoke"

\* what visit_Call does next once the callee and the arguments of vs are
\* evaluated
CallStage(node, vs) ==
    IF Len(vs) - 1 < Len(node.arguments) THEN "argument"
    ELSE IF ~is_lox_callable(vs[1]) THEN "not callable"
    ELSE IF arity(vs[1]) # Len(vs) - 1 THEN "arity"
    ELSE "invoke"

\* the frame's env records the environment current when the call began
visit_Call ==
    /\ At("Call")
    /\ UNCHANGED <<driverVars, classes, output, probeVars>>
    /\ IF top.pc = 0
       THEN /\ Evaluate([top EXCEPT !.pc = 1, !.env = environment],
                        top.n.callee)
            /\ UNCHANGED <<frames, functions, instances, environment>>
       ELSE IF top.pc = 2
       THEN /\ Return(ret)
            /\ UNCHANGED <<frames, functions, instances, environment>>
       ELSE LET vs == Append(top.vs, ret.v)
                function == vs[1]
                arguments == Tail(vs)
                invoked == [top EXCEPT !.pc = 2, !.vs = vs]
                stage == CallStage(top.n, vs)
            IN IF stage = "argument"
               THEN /\ Evaluate([top EXCEPT !.vs = vs], top.n.arguments[Len(vs)])
                    /\ UNCHANGED <<frames, functions, instances, environment>>
               ELSE IF stage = "not callable"
               THEN /\ Return(IF TypeNameRaises(function) THEN NotImplemented
                              ELSE InterpreterError("object is not callable",
                                                    top.n))
                    /\ UNCHANGED <<frames, functions, instances, environment>>
               ELSE IF stage = "arity"
               THEN /\ Return([InterpreterError("expected arguments", top.n)
                                 EXCEPT !.expected = arity(function),
                                        !.got = Len(arguments)])
                    /\ UNCHANGED <<frames, functions, instances, environment>>
               ELSE IF function.t = "Function"
               THEN \* LoxFunction.call
                    LET fn == functions[function.v]
                    IN /\ frames' = Append(frames, CallEnvironment(fn, arguments))
                       /\ environment' = Len(frames) + 1
                       /\ stack' = Append(ReplaceTop(invoked),
                                          CallFrame(function.v, fn.declaration,
                                                    Len(frames) + 1))
                       /\ ret' = Go
                       /\ log' = log
                       /\ UNCHANGED <<functions, instances>>
               ELSE IF function.t = "Class"
               THEN \* LoxClass.call
                    LET instance == InstanceValue(Len(instances) + 1)
                        init == Initializer(function.v)
                        benv == BindEnvironment(functions[init], instance)
                        bound == BoundFunction(functions[init], Len(frames) + 1)
                    IN /\ instances' = Append(instances,
                                              [class_object |-> function.v,
                                               fields |-> EmptyMap])
                       /\ log' = log
                       /\ IF init = 0
                          THEN /\ stack' = ReplaceTop(invoked)
                               /\ ret' = Val(instance)
                               /\ UNCHANGED <<frames, functions, environment>>
                          ELSE /\ frames' = frames \o
                                      <<benv, CallEnvironment(bound, arguments)>>
                               /\ functions' = Append(functions, bound)
                               /\ environment' = Len(frames) + 2
                               /\ stack' = ReplaceTop(invoked) \o
                                      <<[k |-> "LoxClass.call", n |-> top.n,
                                         pc |-> 0, vs |-> <<instance>>,
                                         env |-> 0],
                                        CallFrame(Len(functions) + 1,
                                                  bound.declaration,
                                                  Len(frames) + 2)>>
                               /\ ret' = Go
               ELSE \* NativeClock.call
                    /\ \E now \in ClockValues : ret' = Val(now)
                    /\ stack' = ReplaceTop(invoked)
                    /\ log' = log
                    /\ UNCHANGED <<frames, functions, instances, environment>>

\* the body loop of LoxFunction.call and its normal end
LoxFunction_call ==
    /\ At("LoxFunction.call")
    /\ IF top.pc < Len(top.n.body)
       THEN /\ Execute([top EXCEPT !.pc = @ + 1], top.n.body[top.pc + 1])
            /\ environment' = environment
       ELSE /\ Return([Val(Nil) EXCEPT !.via = "end"])
            /\ environment' = top.env
    /\ UNCHANGED <<driverVars, heapVars, output, probeVars>>

\* the end of LoxClass.call: `return instance`
LoxClass_call ==
    /\ At("LoxClass.call")
    /\ Return([Val(top.vs[1]) EXCEPT !.via = ret.via, !.rv = ret.rv])
    /\ UNCHANGED <<driverVars, heapVars, environment, output, probeVars>>

\* the function objects and the method table visit_ClassDef builds
MethodObjects(methods, closure) ==
    [i \in 1..Len(methods) |-> [declaration |-> methods[i],
                                closure |-> closure]]
MethodTable(methods, base) ==
    LET lastOf(name) == CHOOSE i \in 1..Len(methods) :
                           /\ methods[i].name = name
                           /\ \A j \in 1..Len(methods) :
                                 methods[j].name = name => j <= i
    IN [name \in {methods[i].name : i \in 1..Len(methods)} |->
            base + lastOf(name)]

visit_ClassDef ==
    /\ At("ClassDef")
    /\ UNCHANGED <<driverVars, instances, output, probeVars>>
    /\ IF top.pc = 0 /\ top.n.superclass # None
       THEN /\ frames' = Append(frames, Environment(environment))
            /\ environment' = Len(frames) + 1
            /\ Evaluate([top EXCEPT !.pc = 1, !.env = environment],
                        top.n.superclass)
            /\ UNCHANGED <<functions, classes>>
       ELSE LET superclass_value == ret.v
                class_environment == IF top.pc = 0 THEN environment
                                     ELSE top.env
                super_environment == IF top.pc = 0 THEN Len(frames) + 1
                                     ELSE environment
                fr1 == IF top.pc = 0
                       THEN Append(frames, Environment(environment))
                       ELSE EnvDefine(frames, environment, "super",
                                      superclass_value)
                class_object ==
                    [name |-> top.n.name,
                     superclass |-> IF top.pc = 0 THEN 0
                                    ELSE superclass_value.v,
                     methods |-> MethodTable(top.n.methods, Len(functions))]
            IN IF top.pc = 1 /\ superclass_value.t # "Class"
               THEN /\ Return(IF TypeNameRaises(superclass_value)
                              THEN NotImplemented
                              ELSE InterpreterError(
                                       "Can only inherit from classes",
                                       top.n.superclass))
                    /\ UNCHANGED <<frames, functions, classes, environment>>
               ELSE /\ functions' = functions \o
                          MethodObjects(top.n.methods, super_environment)
                    /\ classes' = Append(classes, class_object)
                    /\ environment' = class_environment
                    /\ frames' = EnvDefine(fr1, class_environment, top.n.name,
                                           ClassValue(Len(classes) + 1))
                    /\ Return(Val(Nil))

visit_Get ==
    /\ At("Get")
    /\ UNCHANGED <<driverVars, classes, instances, environment, output,
                   probeVars>>
    /\ IF top.pc = 0
       THEN /\ Evaluate([top EXCEPT !.pc = 1], top.n.object)
            /\ UNCHANGED <<frames, functions>>
       ELSE LET obj == ret.v
                fields == instances[obj.v].fields
                method == find_method(instances[obj.v].class_object, top.n.name)
            IN IF obj.t # "Instance"
               THEN /\ Return(IF TypeNameRaises(obj) THEN NotImplemented
                              ELSE InterpreterError(
                                       "Cannot access properties",
                                       top.n.object))
                    /\ UNCHANGED <<frames, functions>>
               ELSE IF top.n.name \in DOMAIN fields
               THEN /\ Return(Val(fields[top.n.name]))
                    /\ UNCHANGED <<frames, functions>>
               ELSE IF method # 0
               THEN /\ frames' = Append(frames,
                                        BindEnvironment(functions[method], obj))
                    /\ functions' = Append(functions,
                                           BoundFunction(functions[method],
                                                         Len(frames) + 1))
                    /\ Return(Val(FunctionValue(Len(functions) + 1)))
               ELSE /\ Return(InterpreterError("object has no attribute",
                                               top.n))
                    /\ UNCHANGED <<frames, functions>>

visit_Set ==
    /\ At("Set")
    /\ UNCHANGED <<driverVars, frames, functions, classes, environment,
                   output, probeVars>>
    /\ IF top.pc = 0
       THEN /\ Evaluate([top EXCEPT !.pc = 1], top.n.object)
            /\ instances' = instances
       ELSE IF top.pc = 1
       THEN /\ instances' = instances
            /\ IF ret.v.t # "Instance"
               THEN Return(IF TypeNameRaises(ret.v) THEN NotImplemented
                           ELSE InterpreterError("Cannot set properties",
                                                 top.n.object))
               ELSE Evaluate([top EXCEPT !.pc = 2, !.vs = <<ret.v>>],
                             top.n.value)
       ELSE /\ instances' = [instances EXCEPT ![top.vs[1].v].fields =
                                (top.n.name :> ret.v) @@ @]
            /\ Return(Val(ret.v))

\* a lookup of the super method that does not walk the superclass chain
SuperMethod_own(superclass, name) ==
    IF name \in DOMAIN classes[superclass].methods
    THEN classes[superclass].methods[name] ELSE 0

\* superclass.find_method(super.method.name.string)
SuperMethod(superclass, name) == find_method(superclass, name)

visit_Super ==
    /\ At("Super")
    /\ UNCHANGED <<driverVars, classes, instances, environment, output,
                   probeVars>>
    /\ LET depth == LocalsGet(locals, top.n)
           superclass == get_at(environment, depth, "super")
           instance == get_at(environment, depth - 1, "this")
           super_method == SuperMethod(superclass.v.v, top.n.method.name)
       IN IF depth = -1
          THEN Return(Exc("KeyError", "", -1)) /\ UNCHANGED <<frames, functions>>
          ELSE IF superclass.st = "exc"
          THEN Return(superclass) /\ UNCHANGED <<frames, functions>>
          ELSE IF instance.st = "exc"
          THEN Return(instance) /\ UNCHANGED <<frames, functions>>
          ELSE IF \/ superclass.v.t # "Class"
                  \/ instance.v.t # "Instance"
                  \/ super_method = 0
          THEN /\ Return(Exc("AssertionError", "", -1))
               /\ UNCHANGED <<frames, functions>>
          ELSE /\ frames' = Append(frames,
                                   BindEnvironment(functions[super_method],
                                                   instance.v))
               /\ functions' = Append(functions,
                                      BoundFunction(functions[super_method],
                                                    Len(frames) + 1))
               /\ Return(Val(FunctionValue(Len(functions) + 1)))

(***************************************************************************)
(* Exceptions leaving an activation.                                       *)
(***************************************************************************)
Raising == phase = "running" /\ stack # <<>> /\ ret.st = "exc"

\* the `finally` of visit_Block
UnwindBlock ==
    /\ Raising /\ top.k = "Block"
    /\ environment' = top.env
    /\ stack' = Pop
    /\ UNCHANGED <<driverVars, heapVars, ret, output, log, probeVars>>

\* a call without the `except Return` clause
CatchReturn_missing(r) == r

\* `except Return as ret: return ret.value`
CatchReturn(r) ==
    IF r.ty = "Return" THEN [Val(r.v) EXCEPT !.via = "return", !.rv = r.v]
    ELSE r

\* the `except Return` and the `finally` of LoxFunction.call
UnwindCall ==
    /\ Raising /\ top.k = "LoxFunction.call"
    /\ environment' = top.env
    /\ stack' = Pop
    /\ ret' = CatchReturn(ret)
    /\ UNCHANGED <<driverVars, heapVars, output, log, probeVars>>

\* an exception leaves an activation that has no handler
Propagate ==
    /\ Raising /\ top.k \notin {"Block", "LoxFunction.call"}
    /\ stack' = Pop
    /\ UNCHANGED <<driverVars, heapVars, environment, ret, output, log,
                   probeVars>>

(***************************************************************************)
(* Compilation units of the model.                                         *)
(***************************************************************************)
\* shorthands
Num(n, index) == Literal(Integer(n), index)
Str(str, index) == Literal(String(str), index)
CallStmt(name, index) == ExprStmt(Call(Variable(name, index), <<>>, index + 1))

\* literal operands of the generated expressions:
\* nil true false 0 1 0.0 1.0 "" "a"
LiteralValues == {Nil, Boolean(TRUE), Boolean(FALSE), Integer(0), Integer(1),
                  Float(0), Float(1), String(""), String("a")}

\* print a <op> b;
BinaryProgram(a, op, b) ==
    Program(<<PrintStmt(Binary(Literal(a, 6), op, Literal(b, 12), 6))>>)
BinaryPrograms ==
    {BinaryProgram(a, op, b) :
        a \in LiteralValues, op \in {"==", "!=", "and", "or"},
        b \in LiteralValues}

\* fun f() {}  class K {}  var o = K();
Prelude == <<FunctionDef("f", <<>>, <<>>), ClassDef("K", None, <<>>),
             VarDeclaration("o", Call(Variable("K", 32), <<>>, 33))>>

\* the expressions whose truthiness is tested: the literals and f K o clock
TestExprs == {Literal(value, 50) : value \in LiteralValues}
             \cup {Variable(name, 50) : name \in {"f", "K", "o", "clock"}}

Contexts == {"if", "while", "for", "!", "and", "or"}

\* if (e) print "T"; else print "F";
\* fun w() { while (e) return "T"; return "F"; } print w();
\* fun w() { for (; e;) return "T"; return "F"; } print w();
\* print !e;   print e and "R";   print e or "R";
ContextStmts(ctx, e) ==
    LET yes == ReturnStmt(Str("T", 60))
        no == ReturnStmt(Str("F", 70))
        call == PrintStmt(Call(Variable("w", 80), <<>>, 81))
    IN CASE ctx = "if" -> <<If(e, PrintStmt(Str("T", 60)),
                               PrintStmt(Str("F", 70)))>>
         [] ctx = "while" -> <<FunctionDef("w", <<>>, <<While(e, yes), no>>),
                               call>>
         [] ctx = "for" ->
               <<FunctionDef("w", <<>>, <<For(None, e, None, yes), no>>),
                 call>>
         [] ctx = "!" -> <<PrintStmt(Unary("!", e, 49))>>
         [] ctx = "and" -> <<PrintStmt(Binary(e, "and", Str("R", 60), 49))>>
         [] ctx = "or" -> <<PrintStmt(Binary(e, "or", Str("R", 60), 49))>>

ConditionProgram(ctx, e) == Program(Prelude \o ContextStmts(ctx, e))
ConditionPrograms ==
    {ConditionProgram(ctx, e) : ctx \in Contexts, e \in TestExprs}

\* { var x = 1; { var x = 2; print x; } print x; }
NestedBlocks ==
    Program(<<Block(<<VarDeclaration("x", Num(1, 10)),
                      Block(<<VarDeclaration("x", Num(2, 23)),
                              PrintStmt(Variable("x", 32))>>),
                      PrintStmt(Variable("x", 43))>>)>>)

\* { var x = 1; { x = 5; var x = 2; x = 3; print x; } print x; }
ShadowAssign ==
    Program(<<Block(<<VarDeclaration("x", Num(1, 10)),
                      Block(<<ExprStmt(Assignment("x", Num(5, 19), 15)),
                              VarDeclaration("x", Num(2, 30)),
                              ExprStmt(Assignment("x", Num(3, 37), 33)),
                              PrintStmt(Variable("x", 46))>>),
                      PrintStmt(Variable("x", 57))>>)>>)

\* { var x = 1; fun g() { { var x = 2; return x; } } print g(); print x; }
ShadowReturn ==
    Program(<<Block(<<VarDeclaration("x", Num(1, 10)),
                      FunctionDef("g", <<>>,
                          <<Block(<<VarDeclaration("x", Num(2, 33)),
                                    ReturnStmt(Variable("x", 43))>>)>>),
                      PrintStmt(Call(Variable("g", 56), <<>>, 57)),
                      PrintStmt(Variable("x", 67))>>)>>)

\* var x = 1; { var x = 2; x = 3; nil(); }
ShadowErrorFile ==
    Program(<<VarDeclaration("x", Num(1, 8)),
              Block(<<VarDeclaration("x", Num(2, 21)),
                      ExprStmt(Assignment("x", Num(3, 28), 24)),
                      ExprStmt(Call(Literal(Nil, 31), <<>>, 34))>>)>>)

\* var x = 1;
DeclareX == Program(<<VarDeclaration("x", Num(1, 8))>>)

\* { var x = 2; x = 3; nil(); }
ShadowError ==
    Program(<<Block(<<VarDeclaration("x", Num(2, 10)),
                      ExprStmt(Assignment("x", Num(3, 17), 13)),
                      ExprStmt(Call(Literal(Nil, 20), <<>>, 23))>>)>>)

\* x
ReadX == Program(<<ExprStmt(Variable("x", 0))>>)

\* var y = 2; print y;
DeclareReadY ==
    Program(<<VarDeclaration("y", Num(2, 8)), PrintStmt(Variable("y", 17))>>)

\* class A < x {}
BadSuperclass == Program(<<ClassDef("A", Variable("x", 10), <<>>)>>)

\* fun f(a) { return a + nil; } f(1);
ErrorInCall ==
    Program(<<FunctionDef("f", <<"a">>,
                  <<ReturnStmt(Binary(Variable("a", 18), "+",
                                      Literal(Nil, 22), 18))>>),
              ExprStmt(Call(Variable("f", 29), <<Num(1, 31)>>, 30))>>)

\* 1 % 0
ModuloZero == Program(<<ExprStmt(Binary(Num(1, 0), "%", Num(0, 4), 0))>>)

\* print 1 / 0;
DivideZero == Program(<<PrintStmt(Binary(Num(1, 6), "/", Num(0, 10), 6))>>)

\* fun counter() { var i = 0; fun inc() { i = i + 1; return i; } return inc; }
\* var c1 = counter(); var c2 = counter(); print c1(); print c1(); print c2();
Counter ==
    Program(<<FunctionDef("counter", <<>>,
                  <<VarDeclaration("i", Num(0, 24)),
                    FunctionDef("inc", <<>>,
                        <<ExprStmt(Assignment("i",
                              Binary(Variable("i", 43), "+", Num(1, 47), 43),
                              39)),
                          ReturnStmt(Variable("i", 57))>>),
                    ReturnStmt(Variable("inc", 69))>>),
              VarDeclaration("c1", Call(Variable("counter", 86), <<>>, 93)),
              VarDeclaration("c2", Call(Variable("counter", 106), <<>>, 113)),
              PrintStmt(Call(Variable("c1", 123), <<>>, 125)),
              PrintStmt(Call(Variable("c1", 135), <<>>, 137)),
              PrintStmt(Call(Variable("c2", 147), <<>>, 149))>>)

\* fun outer() { var a = 1; fun inner() { return a; } return inner; }
\* var g = outer(); { var a = 2; print g(); }
CallerScope ==
    Program(<<FunctionDef("outer", <<>>,
                  <<VarDeclaration("a", Num(1, 22)),
                    FunctionDef("inner", <<>>,
                        <<ReturnStmt(Variable("a", 46))>>),
                    ReturnStmt(Variable("inner", 58))>>),
              VarDeclaration("g", Call(Variable("outer", 75), <<>>, 80)),
              Block(<<VarDeclaration("a", Num(2, 94)),
                      PrintStmt(Call(Variable("g", 103), <<>>, 104))>>)>>)

\* fun f(n) { while (true) { if (n > 1) { { return n; } } n = n + 1; } }
\* print f(1); print 5;
ReturnInLoop ==
    Program(<<FunctionDef("f", <<"n">>,
                  <<While(Literal(Boolean(TRUE), 18),
                      Block(<<If(Binary(Variable("n", 30), ">", Num(1, 34), 30),
                                 Block(<<Block(<<ReturnStmt(
                                             Variable("n", 48))>>)>>),
                                 None),
                              ExprStmt(Assignment("n",
                                  Binary(Variable("n", 60), "+", Num(1, 64),
                                         60), 56))>>))>>),
              PrintStmt(Call(Variable("f", 79), <<Num(1, 81)>>, 80)),
              PrintStmt(Num(5, 91))>>)

\* fun k() { for (var i = 0; i < 3; i = i + 1) { if (i == 1) return i; }
\*           return 9; }
\* print k();
ReturnInFor ==
    Program(<<FunctionDef("k", <<>>,
                  <<For(VarDeclaration("i", Num(0, 23)),
                        Binary(Variable("i", 26), "<", Num(3, 30), 26),
                        Assignment("i",
                            Binary(Variable("i", 37), "+", Num(1, 41), 37), 33),
                        Block(<<If(Binary(Variable("i", 51), "==", Num(1, 56),
                                          51),
                                   ReturnStmt(Variable("i", 66)), None)>>)),
                    ReturnStmt(Num(9, 90))>>),
              PrintStmt(Call(Variable("k", 101), <<>>, 102))>>)

\* fun g() { { return; } } fun h() {} print g(); print h();
BareReturn ==
    Program(<<FunctionDef("g", <<>>, <<Block(<<ReturnStmt(None)>>)>>),
              FunctionDef("h", <<>>, <<>>),
              PrintStmt(Call(Variable("g", 41), <<>>, 42)),
              PrintStmt(Call(Variable("h", 52), <<>>, 53))>>)

\* fun inner() { return 1; } fun outer() { var a = inner(); return a + 1; }
\* print outer();
NestedCalls ==
    Program(<<FunctionDef("inner", <<>>, <<ReturnStmt(Num(1, 21))>>),
              FunctionDef("outer", <<>>,
                  <<VarDeclaration("a", Call(Variable("inner", 50), <<>>, 55)),
                    ReturnStmt(Binary(Variable("a", 66), "+", Num(1, 70),
                                      66))>>),
              PrintStmt(Call(Variable("outer", 82), <<>>, 87))>>)

\* class A { init() { return 5; } } print A();
InitReturns ==
    Program(<<ClassDef("A", None,
                  <<FunctionDef("init", <<>>, <<ReturnStmt(Num(5, 26))>>)>>),
              PrintStmt(Call(Variable("A", 39), <<>>, 40))>>)

\* class A { m() { return 5; } } print A().m();
MethodReturns ==
    Program(<<ClassDef("A", None,
                  <<FunctionDef("m", <<>>, <<ReturnStmt(Num(5, 23))>>)>>),
              PrintStmt(Call(Get(Call(Variable("A", 36), <<>>, 37), "m", 40),
                             <<>>, 41))>>)

\* var x = 0; nil(x = 1);
ArgsThenNotCallable ==
    Program(<<VarDeclaration("x", Num(0, 8)),
              ExprStmt(Call(Literal(Nil, 11),
                            <<Assignment("x", Num(1, 19), 15)>>, 14))>>)

\* var x = 0; fun f(a) { print a; } f(x = 1, x = 2);
ArgsThenArity ==
    Program(<<VarDeclaration("x", Num(0, 8)),
              FunctionDef("f", <<"a">>, <<PrintStmt(Variable("a", 28))>>),
              ExprStmt(Call(Variable("f", 33),
                            <<Assignment("x", Num(1, 39), 35),
                              Assignment("x", Num(2, 46), 42)>>, 34))>>)

\* var x = 0; fun f() {} (x = f)(x = 1);
CalleeFirst ==
    Program(<<VarDeclaration("x", Num(0, 8)),
              FunctionDef("f", <<>>, <<>>),
              ExprStmt(Call(Grouping(Assignment("x", Variable("f", 27), 23),
                                     22),
                            <<Assignment("x", Num(1, 34), 30)>>, 29))>>)

\* fun f(a) {print a;} f();
ArityFunction ==
    Program(<<FunctionDef("f", <<"a">>, <<PrintStmt(Variable("a", 16))>>),
              CallStmt("f", 20)>>)

\* class C {init(a, b) {}} C(10);
ArityClass ==
    Program(<<ClassDef("C", None,
                  <<FunctionDef("init", <<"a", "b">>, <<>>)>>),
              ExprStmt(Call(Variable("C", 24), <<Num(10, 26)>>, 25))>>)

\* class D {} D(1);
ArityNoInit ==
    Program(<<ClassDef("D", None, <<>>),
              ExprStmt(Call(Variable("D", 11), <<Num(1, 13)>>, 12))>>)

\* clock(1);
ArityNative ==
    Program(<<ExprStmt(Call(Variable("clock", 0), <<Num(1, 6)>>, 5))>>)

\* print clock();
CallNative ==
    Program(<<PrintStmt(Call(Variable("clock", 6), <<>>, 11))>>)

\* class E { m(a) { print a; } } E().m();
ArityMethod ==
    Program(<<ClassDef("E", None,
                  <<FunctionDef("m", <<"a">>,
                        <<PrintStmt(Variable("a", 23))>>)>>),
              ExprStmt(Call(Get(Call(Variable("E", 30), <<>>, 31), "m", 34),
                            <<>>, 35))>>)

\* class P { init(a) { this.a = a; } get() { return this.a; } }
\* class Q < P { get() { return super.get; } }
\* var p = P(3); print p.get(); p.a = 4; print p.a;
\* var q = Q(); q.a = 7; print q.get()();
Objects ==
    Program(<<ClassDef("P", None,
                  <<FunctionDef("init", <<"a">>,
                        <<ExprStmt(Set(This(20), "a", Variable("a", 29),
                                       24))>>),
                    FunctionDef("get", <<>>,
                        <<ReturnStmt(Get(This(50), "a", 54))>>)>>),
              ClassDef("Q", Variable("P", 70),
                  <<FunctionDef("get", <<>>,
                        <<ReturnStmt(Super(Variable("get", -1), 90))>>)>>),
              VarDeclaration("p", Call(Variable("P", 110), <<Num(3, 112)>>,
                                       111)),
              PrintStmt(Call(Get(Variable("p", 122), "get", 123), <<>>, 127)),
              ExprStmt(Set(Variable("p", 131), "a", Num(4, 137), 132)),
              PrintStmt(Get(Variable("p", 146), "a", 147)),
              VarDeclaration("q", Call(Variable("Q", 158), <<>>, 159)),
              ExprStmt(Set(Variable("q", 163), "a", Num(7, 169), 164)),
              PrintStmt(Call(Call(Get(Variable("q", 178), "get", 179), <<>>,
                                  183), <<>>, 185))>>)

\* class A {} class B < A { m() { return super.nope; } } B().m();
SuperMissing ==
    Program(<<ClassDef("A", None, <<>>),
              ClassDef("B", Variable("A", 21),
                  <<FunctionDef("m", <<>>,
                        <<ReturnStmt(Super(Variable("nope", -1), 38))>>)>>),
              ExprStmt(Call(Get(Call(Variable("B", 53), <<>>, 54), "m", 57),
                            <<>>, 58))>>)

\* { if (false) var x = 1; print x; }
ConditionalDeclaration ==
    Program(<<Block(<<If(Literal(Boolean(FALSE), 6),
                         VarDeclaration("x", Num(1, 21)), None),
                      PrintStmt(Variable("x", 30))>>)>>)

\* print 0 or ((true and 3) and (7 or 0 / 0));
ShortCircuitTest ==
    Program(<<PrintStmt(
        Binary(Num(0, 6), "or",
               Binary(Binary(Literal(Boolean(TRUE), 13), "and", Num(3, 22), 13),
                      "and",
                      Grouping(Binary(Num(7, 30), "or",
                                      Binary(Num(0, 35), "/", Num(0, 39), 35),
                                      30), 29),
                      13), 6))>>)

\* print false and (1 / 0);
FalseAndDivide ==
    Program(<<PrintStmt(Binary(Literal(Boolean(FALSE), 6), "and",
                               Grouping(Binary(Num(1, 17), "/", Num(0, 21),
                                               17), 16), 6))>>)

\* print 7 or (0 / 0);
SevenOrDivide ==
    Program(<<PrintStmt(Binary(Num(7, 6), "or",
                               Grouping(Binary(Num(0, 12), "/", Num(0, 16),
                                               12), 11), 6))>>)

\* var x = 0; print (x = x + 1) or (x = 10); print (x = nil) and (x = 20);
\* print x;
OperandEffects ==
    Program(<<VarDeclaration("x", Num(0, 8)),
              PrintStmt(Binary(
                  Grouping(Assignment("x",
                      Binary(Variable("x", 22), "+", Num(1, 26), 22), 18), 17),
                  "or",
                  Grouping(Assignment("x", Num(10, 37), 33), 32), 17)),
              PrintStmt(Binary(
                  Grouping(Assignment("x", Literal(Nil, 52), 48), 47),
                  "and",
                  Grouping(Assignment("x", Num(20, 67), 63), 62), 47)),
              PrintStmt(Variable("x", 78))>>)

\* print -(2 * 3) + 7 % 4; print "a" + "b"; print 4 / 2 >= 2; print -"a";
Arithmetic ==
    Program(<<PrintStmt(Binary(Unary("-", Grouping(Binary(Num(2, 8), "*",
                                   Num(3, 12), 8), 7), 6), "+",
                               Binary(Num(7, 17), "%", Num(4, 21), 17), 6)),
              PrintStmt(Binary(Str("a", 30), "+", Str("b", 36), 30)),
              PrintStmt(Binary(Binary(Num(4, 47), "/", Num(2, 51), 47), ">=",
                               Num(2, 56), 47)),
              PrintStmt(Unary("-", Str("a", 66), 65))>>)

\* class A { foo() { print "A"; } }
\* class B < A { foo() { print "B"; super.foo(); } }
\* B().foo();
SuperSimple ==
    Program(<<ClassDef("A", None,
                  <<FunctionDef("foo", <<>>, <<PrintStmt(Str("A", 24))>>)>>),
              ClassDef("B", Variable("A", 42),
                  <<FunctionDef("foo", <<>>,
                        <<PrintStmt(Str("B", 58)),
                          ExprStmt(Call(Super(Variable("foo", -1), 63), <<>>,
                                        72))>>)>>),
              ExprStmt(Call(Get(Call(Variable("B", 80), <<>>, 81), "foo", 83),
                            <<>>, 87))>>)

\* class A0 { m() { return this.x; } }
\* class A < A0 {}
\* class B < A { m() { { fun g() { return super.m; } print g()(); } } }
\* class C < B {}
\* var c = C(); c.x = 5;
\* fun call(o) { o.m(); }
\* call(c);
SuperChain ==
    Program(<<ClassDef("A0", None,
                  <<FunctionDef("m", <<>>,
                        <<ReturnStmt(Get(This(24), "x", 28))>>)>>),
              ClassDef("A", Variable("A0", 45), <<>>),
              ClassDef("B", Variable("A", 62),
                  <<FunctionDef("m", <<>>,
                        <<Block(<<FunctionDef("g", <<>>,
                                      <<ReturnStmt(
                                            Super(Variable("m", -1), 91))>>),
                                  PrintStmt(Call(Call(Variable("g", 108),
                                                      <<>>, 109),
                                                 <<>>, 111))>>)>>)>>),
              ClassDef("C", Variable("B", 130), <<>>),
              VarDeclaration("c", Call(Variable("C", 143), <<>>, 144)),
              ExprStmt(Set(Variable("c", 148), "x", Num(5, 154), 149)),
              FunctionDef("call", <<"o">>,
                  <<ExprStmt(Call(Get(Variable("o", 172), "m", 173), <<>>,
                                  175))>>),
              ExprStmt(Call(Variable("call", 182), <<Variable("c", 187)>>,
                            186))>>)

\* class G { a() { return 1; } b() { return 2; } c() { return 3; } }
\* class P < G { b() { return 20; } }
\* class Q < P { c() { return 30; } }
\* var q = Q(); print q.a(); print q.b(); print q.c();
\* q.a = 9; print q.a; print q.d;
PropertyLookup ==
    Program(<<ClassDef("G", None,
                  <<FunctionDef("a", <<>>, <<ReturnStmt(Num(1, 23))>>),
                    FunctionDef("b", <<>>, <<ReturnStmt(Num(2, 41))>>),
                    FunctionDef("c", <<>>, <<ReturnStmt(Num(3, 59))>>)>>),
              ClassDef("P", Variable("G", 75),
                  <<FunctionDef("b", <<>>, <<ReturnStmt(Num(20, 92))>>)>>),
              ClassDef("Q", Variable("P", 110),
                  <<FunctionDef("c", <<>>, <<ReturnStmt(Num(30, 127))>>)>>),
              VarDeclaration("q", Call(Variable("Q", 143), <<>>, 144)),
              PrintStmt(Call(Get(Variable("q", 154), "a", 155), <<>>, 157)),
              PrintStmt(Call(Get(Variable("q", 167), "b", 168), <<>>, 170)),
              PrintStmt(Call(Get(Variable("q", 180), "c", 181), <<>>, 183)),
              ExprStmt(Set(Variable("q", 187), "a", Num(9, 193), 188)),
              PrintStmt(Get(Variable("q", 202), "a", 203)),
              PrintStmt(Get(Variable("q", 212), "d", 213))>>)

\* clock.x = 1;
SetOnClock ==
    Program(<<ExprStmt(Set(Variable("clock", 0), "x", Num(1, 10), 5))>>)

\* var x = 0; "s".n = (x = 1);
SetOnString ==
    Program(<<VarDeclaration("x", Num(0, 8)),
              ExprStmt(Set(Str("s", 11), "n",
                           Grouping(Assignment("x", Num(1, 25), 23), 20),
                           14))>>)

\* class K { m() { return 1; } }
\* var a = K(); var b = K(); a.m = 2; print a.m; print b.m(); print a.n = 3;
SetField ==
    Program(<<ClassDef("K", None,
                  <<FunctionDef("m", <<>>, <<ReturnStmt(Num(1, 23))>>)>>),
              VarDeclaration("a", Call(Variable("K", 37), <<>>, 38)),
              VarDeclaration("b", Call(Variable("K", 50), <<>>, 51)),
              ExprStmt(Set(Variable("a", 55), "m", Num(2, 61), 56)),
              PrintStmt(Get(Variable("a", 70), "m", 71)),
              PrintStmt(Call(Get(Variable("b", 80), "m", 81), <<>>, 83)),
              PrintStmt(Set(Variable("a", 93), "n", Num(3, 99), 94))>>)

\* fun f() { { y = 1; } } f();
AssignUndeclared ==
    Program(<<FunctionDef("f", <<>>,
                  <<Block(<<ExprStmt(Assignment("y", Num(1, 16), 12))>>)>>),
              CallStmt("f", 23)>>)

\* { var z; z = 1; }
BlockAssignZ ==
    Program(<<Block(<<VarDeclaration("z", None),
                      ExprStmt(Assignment("z", Num(1, 13), 9))>>)>>)

\* print 1; z = 1;
PrintAssignZ ==
    Program(<<PrintStmt(Num(1, 6)),
              ExprStmt(Assignment("z", Num(1, 13), 9))>>)

\* class A { foo() { foo = 1; } } A().foo();
AssignMethodName ==
    Program(<<ClassDef("A", None,
                  <<FunctionDef("foo", <<>>,
                        <<ExprStmt(Assignment("foo", Num(1, 24), 18))>>)>>),
              ExprStmt(Call(Get(Call(Variable("A", 31), <<>>, 32), "foo", 34),
                            <<>>, 38))>>)

\* class A { m() { { fun g() { return this; } print g(); } } } A().m();
ThisInClass ==
    Program(<<ClassDef("A", None,
                  <<FunctionDef("m", <<>>,
                        <<Block(<<FunctionDef("g", <<>>,
                                      <<ReturnStmt(This(37))>>),
                                  PrintStmt(Call(Variable("g", 52), <<>>,
                                                 53))>>)>>)>>),
              ExprStmt(Call(Get(Call(Variable("A", 64), <<>>, 65), "m", 67),
                            <<>>, 69))>>)

\* class A {} class B < A { m() { print this; } } B().m();
ThisInSubclass ==
    Program(<<ClassDef("A", None, <<>>),
              ClassDef("B", Variable("A", 21),
                  <<FunctionDef("m", <<>>, <<PrintStmt(This(37))>>)>>),
              ExprStmt(Call(Get(Call(Variable("B", 48), <<>>, 49), "m", 51),
                            <<>>, 53))>>)

\* class A { m() { class B { n() {} } print this; } } A().m();
ThisAfterNestedClass ==
    Program(<<ClassDef("A", None,
                  <<FunctionDef("m", <<>>,
                        <<ClassDef("B", None,
                              <<FunctionDef("n", <<>>, <<>>)>>),
                          PrintStmt(This(43))>>)>>),
              ExprStmt(Call(Get(Call(Variable("A", 54), <<>>, 55), "m", 57),
                            <<>>, 59))>>)

\* print this;
ThisTopLevel == Program(<<PrintStmt(This(6))>>)

\* class A { m() {} } fun f() { return this; }
ThisInFunction ==
    Program(<<ClassDef("A", None, <<FunctionDef("m", <<>>, <<>>)>>),
              FunctionDef("f", <<>>, <<ReturnStmt(This(38))>>)>>)

\* fun f() { fun g() {} return 1; } print f();
ReturnAfterFunction ==
    Program(<<FunctionDef("f", <<>>,
                  <<FunctionDef("g", <<>>, <<>>),
                    ReturnStmt(Num(1, 30))>>),
              PrintStmt(Call(Variable("f", 41), <<>>, 42))>>)

\* fun f() { { fun g() {} } return 1; } print f();
ReturnAfterBlockFunction ==
    Program(<<FunctionDef("f", <<>>,
                  <<Block(<<FunctionDef("g", <<>>, <<>>)>>),
                    ReturnStmt(Num(1, 34))>>),
              PrintStmt(Call(Variable("f", 45), <<>>, 46))>>)

\* fun f() { class A { m() {} } return 1; } print f();
ReturnAfterClass ==
    Program(<<FunctionDef("f", <<>>,
                  <<ClassDef("A", None, <<FunctionDef("m", <<>>, <<>>)>>),
                    ReturnStmt(Num(1, 38))>>),
              PrintStmt(Call(Variable("f", 49), <<>>, 50))>>)

\* return 1;
ReturnTopLevel == Program(<<ReturnStmt(Num(1, 7))>>)

\* fun f() {} { return 1; }
ReturnInTopBlock ==
    Program(<<FunctionDef("f", <<>>, <<>>),
              Block(<<ReturnStmt(Num(1, 20))>>)>>)

\* { var a = 1; var a = 2; }
DupVarInBlock ==
    Program(<<Block(<<VarDeclaration("a", Num(1, 10)),
                      VarDeclaration("a", Num(2, 21))>>)>>)

\* fun f(a, a) {}
DupParameter == Program(<<FunctionDef("f", <<"a", "a">>, <<>>)>>)

\* fun f(a) { if (a) var a = 1; }
DupParameterVar ==
    Program(<<FunctionDef("f", <<"a">>,
                  <<If(Variable("a", 15), VarDeclaration("a", Num(1, 26)),
                       None)>>)>>)

\* { fun g() {} class g {} }
DupFunctionClass ==
    Program(<<Block(<<FunctionDef("g", <<>>, <<>>),
                      ClassDef("g", None, <<>>)>>)>>)

\* var a = 1; var a = 2; fun f(a) { { var a = 3; print a; } print a; }
\* f(a);
RedeclareAndShadow ==
    Program(<<VarDeclaration("a", Num(1, 8)),
              VarDeclaration("a", Num(2, 19)),
              FunctionDef("f", <<"a">>,
                  <<Block(<<VarDeclaration("a", Num(3, 43)),
                            PrintStmt(Variable("a", 52))>>),
                    PrintStmt(Variable("a", 63))>>),
              ExprStmt(Call(Variable("f", 68), <<Variable("a", 70)>>, 69))>>)

\* class A { m() {} m() {} }
DupMethod ==
    Program(<<ClassDef("A", None, <<FunctionDef("m", <<>>, <<>>),
                                    FunctionDef("m", <<>>, <<>>)>>)>>)

\* class Base { m() { print 1; } }
\* { class Base { m() { print 2; } } class C < Base {} C().m(); }
LocalSuperclass ==
    Program(<<ClassDef("Base", None,
                  <<FunctionDef("m", <<>>, <<PrintStmt(Num(1, 25))>>)>>),
              Block(<<ClassDef("Base", None,
                          <<FunctionDef("m", <<>>,
                                <<PrintStmt(Num(2, 59))>>)>>),
                      ClassDef("C", Variable("Base", -1), <<>>),
                      ExprStmt(Call(Get(Call(Variable("C", 84), <<>>, 85),
                                        "m", 87), <<>>, 89))>>)>>)

\* { class Base { m() { print 2; } } class C < Base {} C().m(); }
LocalSuperclassOnly ==
    Program(<<Block(<<ClassDef("Base", None,
                          <<FunctionDef("m", <<>>,
                                <<PrintStmt(Num(2, 27))>>)>>),
                      ClassDef("C", Variable("Base", -1), <<>>),
                      ExprStmt(Call(Get(Call(Variable("C", 52), <<>>, 53),
                                        "m", 55), <<>>, 57))>>)>>)

\* class A { init(a) { print a; } } class B < A {} B(1);
InheritedInit ==
    Program(<<ClassDef("A", None,
                  <<FunctionDef("init", <<"a">>,
                        <<PrintStmt(Variable("a", 26))>>)>>),
              ClassDef("B", Variable("A", -1), <<>>),
              ExprStmt(Call(Variable("B", 48), <<Num(1, 50)>>, 49))>>)

Scenarios ==
    {DupMethod, DupVarInBlock, DupParameter, DupParameterVar, DupFunctionClass,
     RedeclareAndShadow,
     ReturnAfterFunction, ReturnAfterBlockFunction, ReturnAfterClass,
     ReturnTopLevel, ReturnInTopBlock,
     ThisInClass, ThisInSubclass, ThisAfterNestedClass, ThisTopLevel,
     ThisInFunction,
     SuperSimple, SuperChain, PropertyLookup, SetOnClock, SetOnString,
     SetField, AssignUndeclared, BlockAssignZ, PrintAssignZ, AssignMethodName,
     NestedBlocks, ShadowAssign, ShadowReturn, ShadowErrorFile, DeclareX, ShadowError, ReadX,
     DeclareReadY, BadSuperclass, ErrorInCall, ModuloZero, DivideZero,
     Counter, CallerScope, ReturnInLoop, ReturnInFor, BareReturn, NestedCalls,
     InitReturns, MethodReturns, ArgsThenNotCallable, ArgsThenArity,
     CalleeFirst, ArityFunction, ArityClass, ArityNoInit, ArityNative,
     CallNative, ArityMethod, Objects, SuperMissing, ConditionalDeclaration,
     LocalSuperclass, LocalSuperclassOnly, InheritedInit,
     ShortCircuitTest, FalseAndDivide, SevenOrDivide, OperandEffects,
     Arithmetic}

\* the programs run from a file
FilePrograms == Scenarios \cup BinaryPrograms \cup ConditionPrograms

\* the inputs typed at the prompt
ReplInputs ==
    {DeclareX, ReadX, DeclareReadY, BadSuperclass, NestedBlocks, ShadowError,
     ErrorInCall, ModuloZero, ReturnInLoop, Objects, BlockAssignZ,
     PrintAssignZ}

\* var a = 1; print a; @
UnknownCharacter ==
    <<"v", "a", "r", " ", "a", " ", "=", " ", "1", ";", " ", "p", "r", "i",
      "n", "t", " ", "a", ";", " ", "@">>

\* var a = 1; print a; print ;
MissingOperand ==
    <<"v", "a", "r", " ", "a", " ", "=", " ", "1", ";", " ", "p", "r", "i",
      "n", "t", " ", "a", ";", " ", "p", "r", "i", "n", "t", " ", ";">>

\* var a = 1; print a; return a;
LateReturn ==
    <<"v", "a", "r", " ", "a", " ", "=", " ", "1", ";", " ", "p", "r", "i",
      "n", "t", " ", "a", ";", " ", "r", "e", "t", "u", "r", "n", " ", "a",
      ";">>

\* var a = 1; print a;
DeclarePrint ==
    <<"v", "a", "r", " ", "a", " ", "=", " ", "1", ";", " ", "p", "r", "i",
      "n", "t", " ", "a", ";">>

\* print (1 +
OpenParen ==
    <<"p", "r", "i", "n", "t", " ", "(", "1", " ", "+">>

\* 2);
CloseParen ==
    <<"2", ")", ";">>

\* print 'a\
OpenString ==
    <<"p", "r", "i", "n", "t", " ", "'", "a", "\\">>

\* b';
CloseString ==
    <<"b", "'", ";">>

\* print 'a
UnclosedString ==
    <<"p", "r", "i", "n", "t", " ", "'", "a">>

\* the files given by their text
FileSources ==
    {UnknownCharacter, MissingOperand, LateReturn, DeclarePrint, OpenParen,
     OpenString, UnclosedString}

\* the lines typed at the prompt
ReplLines ==
    {UnknownCharacter, MissingOperand, LateReturn, DeclarePrint, OpenParen,
     CloseParen, OpenString, CloseString, UnclosedString}

(***************************************************************************)
(* The drivers (pylox/__init__.py).                                        *)
(***************************************************************************)
NoResult == [status |-> "", ty |-> "", msg |-> "", index |-> -1,
             expected |-> -1, got |-> -1]

\* Interpreter.visit: the statements of the program in order
visit_Program ==
    /\ At("Program")
    /\ IF top.pc < Len(top.n.body)
       THEN Execute([top EXCEPT !.pc = @ + 1], top.n.body[top.pc + 1])
       ELSE Return(Val(Nil))
    /\ UNCHANGED <<driverVars, heapVars, environment, output, probeVars>>

\* run_interactive on a program that is a single expression statement:
\* the value of the expression is printed unless it is None
ReplExpression ==
    /\ At("ReplExpression")
    /\ IF top.pc = 0
       THEN Evaluate([top EXCEPT !.pc = 1], top.n) /\ output' = output
       ELSE /\ Return(Val(Nil))
            /\ output' = IF ret.v # Nil THEN Append(output, ret.v) ELSE output
    /\ UNCHANGED <<driverVars, heapVars, environment, probeVars>>

\* "\n".join(lines)
RECURSIVE JoinLines(_)
JoinLines(ls) ==
    IF ls = <<>> THEN <<>>
    ELSE IF Len(ls) = 1 THEN ls[1]
    ELSE ls[1] \o <<"\n">> \o JoinLines(Tail(ls))

\* the parser of a unit that is given by its tree
NoParse == NewParse(<<EOF>>, "file")

\* `if errors: ... return 1` of run and the except clauses of the resolver's
\* ParseError in run and run_interactive: the unit is given up
GivesUp_never(error) == FALSE

GivesUp(error) == error # ""

\* the first activation of a unit: run_interactive evaluates a program
\* that is a single expression statement, and visits any other
FirstFrame(unit) ==
    IF mode = "repl" /\ Len(unit.body) = 1 /\ unit.body[1].k = "ExprStmt"
    THEN [Frame(unit.body[1].expression) EXCEPT !.k = "ReplExpression"]
    ELSE Frame(unit)

\* a unit is started without a visit of the resolver
Begin_unresolved(unit, text, parsed) ==
    LET r == NewResolver(locals)
    IN /\ ninputs' = ninputs + 1
       /\ tree' = unit
       /\ code' = text
       /\ parser' = parsed
       /\ lines' = <<>>
       /\ locals' = r.locals
       /\ output' = <<>>
       /\ log' = <<>>
       /\ last' = NoProbe
       /\ lastTest' = NoTest
       /\ ret' = Go
       /\ IF GivesUp(r.error)
          THEN /\ result' = [NoResult EXCEPT !.status = "ParseError",
                                             !.ty = "ParseError",
                                             !.msg = r.error]
               /\ stack' = <<>>
               /\ phase' = IF mode = "repl" THEN "idle" ELSE "exited"
          ELSE /\ result' = NoResult
               /\ stack' = <<FirstFrame(unit)>>
               /\ phase' = "running"
       /\ UNCHANGED <<lexer, mode, heapVars, environment>>

\* a unit is resolved and, unless the resolver raised, started
Begin(unit, text, parsed) ==
    LET r == ResolverVisit(locals, unit)
    IN /\ ninputs' = ninputs + 1
       /\ tree' = unit
       /\ code' = text
       /\ parser' = parsed
       /\ lines' = <<>>
       /\ locals' = r.locals
       /\ output' = <<>>
       /\ log' = <<>>
       /\ last' = NoProbe
       /\ lastTest' = NoTest
       /\ ret' = Go
       /\ IF GivesUp(r.error)
          THEN /\ result' = [NoResult EXCEPT !.status = "ParseError",
                                             !.ty = "ParseError",
                                             !.msg = r.error]
               /\ stack' = <<>>
               /\ phase' = IF mode = "repl" THEN "idle" ELSE "exited"
          ELSE /\ result' = NoResult
               /\ stack' = <<FirstFrame(unit)>>
               /\ phase' = "running"
       /\ UNCHANGED <<lexer, mode, heapVars, environment>>

\* a unit given by its tree
Start(unit) == Begin(unit, <<>>, NoParse)

\* a unit whose lexing or parsing raised exc: it is reported, or awaits
\* more lines; unit is the tree that parse returned, if it returned
Reject(exc, unit, text, parsed, buffer) ==
    /\ ninputs' = ninputs + 1
    /\ tree' = unit
    /\ code' = text
    /\ parser' = parsed
    /\ lines' = buffer
    /\ result' = [NoResult EXCEPT !.status = exc.ty, !.ty = exc.ty,
                                  !.msg = exc.msg, !.index = exc.index]
    /\ output' = <<>>
    /\ log' = <<>>
    /\ last' = NoProbe
    /\ lastTest' = NoTest
    /\ ret' = Go
    /\ stack' = <<>>
    /\ phase' = IF mode = "repl" THEN "idle" ELSE "exited"
    /\ UNCHANGED <<lexer, mode, locals, heapVars, environment>>

\* the exception a lexer state holds
LexErrorOf(l) == [ty |-> l.error, msg |-> l.msg, index |-> l.index]

\* one turn of the loop of run_interactive on a line of text, up to the
\* start of evaluation
ReadLine(line) ==
    LET buffer == Append(lines, line)
        text == JoinLines(buffer)
        l == Lexer(text)
        ps == ParseLoop(NewParse(l.tokens, "repl"))
    IN IF l.error = "LexIncompleteError"
       THEN Reject(LexErrorOf(l), None, text, NoParse, buffer)
       ELSE IF l.error = "LexError"
       THEN Reject(LexErrorOf(l), None, text, NoParse, <<>>)
       ELSE IF ps.raised /\ ps.p.error = "ParseEOFError"
       THEN Reject(ParseErrorOf(ps.p), None, text, ps, buffer)
       ELSE IF ps.raised
       THEN Reject(ParseErrorOf(ps.p), None, text, ps, <<>>)
       ELSE Begin(Program(ps.body), text, ps)

\* one turn of the loop of run_interactive, up to the start of evaluation
run_interactive ==
    /\ mode = "repl" /\ phase = "idle" /\ ninputs < MaxInputs
    /\ \/ lines = <<>> /\ \E unit \in ReplInputs : Start(unit)
       \/ \E line \in ReplLines : ReadLine(line)

\* run on a file of the given text, up to the start of evaluation; a
\* LexIncompleteError is not a LexError and leaves run
ReadFile(text) ==
    LET l == Lexer(text)
        ps == ParseLoop(NewParse(l.tokens, "file"))
    IN IF l.error # ""
       THEN Reject(LexErrorOf(l), None, text, NoParse, <<>>)
       ELSE IF GivesUp(IF ps.errors = <<>> THEN "" ELSE ps.errors[1].msg)
       THEN Reject(ps.errors[1], Program(ps.body), text, ps, <<>>)
       ELSE Begin(Program(ps.body), text, ps)

\* run, up to the start of evaluation
run ==
    /\ mode = "file" /\ phase = "idle" /\ ninputs = 0
    /\ \/ \E unit \in FilePrograms : Start(unit)
       \/ \E text \in FileSources : ReadFile(text)

\* the end of evaluation in run and run_interactive: normal, or one of the
\* except clauses
Finish ==
    /\ phase = "running" /\ stack = <<>>
    /\ result' = IF ret.st # "exc" THEN [NoResult EXCEPT !.status = "ok"]
                 ELSE [status |-> IF ret.ty = "InterpreterError"
                                  THEN "InterpreterError"
                                  ELSE "Internal Error",
                       ty |-> ret.ty, msg |-> ret.msg, index |-> ret.index,
                       expected |-> ret.expected, got |-> ret.got]
    /\ phase' = IF mode = "repl" THEN "idle" ELSE "exited"
    /\ UNCHANGED <<mode, ninputs, tree, code, parser, lexer, lines, locals,
                   heapVars, environment, stack, ret, output, log, probeVars>>

\* the interpreter before the first unit
NewInterpreter ==
    /\ phase = "idle"
    /\ ninputs = 0
    /\ tree = Program(<<>>)
    /\ code = <<>>
    /\ lines = <<>>
    /\ locals = {}
    /\ frames = <<create_globals>>
    /\ environment = globals
    /\ functions = <<>>
    /\ classes = <<>>
    /\ instances = <<>>
    /\ stack = <<>>
    /\ ret = Go
    /\ output = <<>>
    /\ result = NoResult
    /\ log = <<>>
    /\ last = NoProbe
    /\ lastTest = NoTest

Init ==
    /\ mode \in {"file", "repl"}
    /\ parser = NoParse
    /\ lexer = NewLexer(<<>>)
    /\ NewInterpreter

Next ==
    \/ run
    \/ run_interactive
    \/ Finish
    \/ visit_Program
    \/ ReplExpression
    \/ visit_Literal
    \/ visit_Variable
    \/ visit_This
    \/ visit_Grouping
    \/ visit_Assignment
    \/ visit_Unary
    \/ visit_Binary
    \/ visit_Print
    \/ visit_ExprStmt
    \/ visit_VarDeclaration
    \/ visit_Block
    \/ visit_If
    \/ visit_While
    \/ visit_For
    \/ visit_FunctionDef
    \/ visit_ReturnStmt
    \/ visit_Call
    \/ LoxFunction_call
    \/ LoxClass_call
    \/ visit_ClassDef
    \/ visit_Get
    \/ visit_Set
    \/ visit_Super
    \/ UnwindBlock
    \/ UnwindCall
    \/ Propagate

Spec == Init /\ [][Next]_vars

(***************************************************************************)
(* Parser.parse on its own: the token list and the mode are chosen at the  *)
(* start, and the loop of parse is followed turn by turn in `parser`.      *)
(***************************************************************************)
\* a token of the given type; its index is its position in the list
TokenOfType(token_type, index) ==
    CASE token_type = "PRINT" -> Token("PRINT", "print", Nil, index)
      [] token_type = "VAR" -> Token("VAR", "var", Nil, index)
      [] token_type = "IDENTIFIER" -> Token("IDENTIFIER", "x", Nil, index)
      [] token_type = "NUMBER" -> Token("NUMBER", "1", Integer(1), index)
      [] token_type = "EQUAL" -> Token("EQUAL", "=", Nil, index)
      [] token_type = "FUN" -> Token("FUN", "fun", Nil, index)
      [] token_type = "CLASS" -> Token("CLASS", "class", Nil, index)
      [] token_type = "COMMA" -> Token("COMMA", ",", Nil, index)
      [] token_type = "MINUS" -> Token("MINUS", "-", Nil, index)
      [] token_type = "PLUS" -> Token("PLUS", "+", Nil, index)
      [] token_type = "EOF" -> EOF
      [] OTHER -> Token(token_type, TokenTypeValue[token_type], Nil, index)

\* the token list of the given types, as the lexer ends it
Tokens(types) ==
    [i \in 1..Len(types) |-> TokenOfType(types[i], i - 1)] \o <<EOF>>

\* the token types of the lists of arbitrary tokens
Alphabet ==
    {"PRINT", "IDENTIFIER", "NUMBER", "EQUAL", "SEMICOLON", "LEFT_PAREN",
     "RIGHT_PAREN", "EOF"}

\* the lists of at most MaxTokens arbitrary tokens
TokenLists == UNION {[1..n -> Alphabet] : n \in 0..MaxTokens}

\* statements that end with a semicolon: print 1;  x = 1;  var x;
GoodStatements ==
    {<<"PRINT", "NUMBER", "SEMICOLON">>,
     <<"IDENTIFIER", "EQUAL", "NUMBER", "SEMICOLON">>,
     <<"VAR", "IDENTIFIER", "SEMICOLON">>}

\* statements with one syntax error before their semicolon:
\* print ;  print 1 1;  1 = 1;  print (1;  var x = };
BadStatements ==
    {<<"PRINT", "SEMICOLON">>,
     <<"PRINT", "NUMBER", "NUMBER", "SEMICOLON">>,
     <<"NUMBER", "EQUAL", "NUMBER", "SEMICOLON">>,
     <<"PRINT", "LEFT_PAREN", "NUMBER", "SEMICOLON">>,
     <<"VAR", "IDENTIFIER", "EQUAL", "RIGHT_BRACE", "SEMICOLON">>}

\* the sources of at most MaxStatements such statements
StatementLists ==
    UNION {[1..n -> GoodStatements \cup BadStatements] :
               n \in 1..MaxStatements}

RECURSIVE Flatten(_)
Flatten(seqs) ==
    IF seqs = <<>> THEN <<>> ELSE Head(seqs) \o Flatten(Tail(seqs))

ParserInputs == TokenLists \cup {Flatten(sts) : sts \in StatementLists}

ParserInit ==
    /\ mode \in {"file", "repl"}
    /\ parser \in {NewParse(Tokens(types), mode) : types \in ParserInputs}
    /\ lexer = NewLexer(<<>>)
    /\ NewInterpreter

Parsing == ~parser.raised /\ ~parser.returned /\ ~scanned(parser.p)

\* a turn of the loop of parse in which parse_declaration returns
ParseAppend ==
    /\ Parsing
    /\ ~Raised(parse_declaration(parser.p))
    /\ parser' = ParseTurn(parser)
    /\ UNCHANGED <<mode, phase, ninputs, tree, code, lines, lexer, locals,
                   result, heapVars, environment, stack, ret, output, log,
                   probeVars>>

\* a turn in which parse_declaration raises, in mode "file": the error is
\* stored and the parser synchronizes
ParseCatch ==
    /\ Parsing
    /\ parser.mode = "file"
    /\ Raised(parse_declaration(parser.p))
    /\ parser' = ParseTurn(parser)
    /\ UNCHANGED <<mode, phase, ninputs, tree, code, lines, lexer, locals,
                   result, heapVars, environment, stack, ret, output, log,
                   probeVars>>

\* a turn in which parse_declaration raises, in mode "repl": parse raises
ParseRaise ==
    /\ Parsing
    /\ parser.mode = "repl"
    /\ Raised(parse_declaration(parser.p))
    /\ parser' = ParseTurn(parser)
    /\ UNCHANGED <<mode, phase, ninputs, tree, code, lines, lexer, locals,
                   result, heapVars, environment, stack, ret, output, log,
                   probeVars>>

\* the end of the loop: parse returns
ParseReturn ==
    /\ ~parser.raised /\ ~parser.returned /\ scanned(parser.p)
    /\ parser' = [parser EXCEPT !.returned = TRUE]
    /\ UNCHANGED <<mode, phase, ninputs, tree, code, lines, lexer, locals,
                   result, heapVars, environment, stack, ret, output, log,
                   probeVars>>

ParserNext ==
    \/ ParseAppend
    \/ ParseCatch
    \/ ParseRaise
    \/ ParseReturn

ParserSpec == ParserInit /\ [][ParserNext]_vars

(***************************************************************************)
(* Parser.parse on declarations and calls with a given number of           *)
(* parameters and arguments.                                               *)
(***************************************************************************)
\* n tokens of the type, with commas between them
Separated(token_type, n) ==
    [i \in 1..(IF n = 0 THEN 0 ELSE 2 * n - 1) |->
        IF i % 2 = 1 THEN token_type ELSE "COMMA"]

\* fun x(x, ..., x) {}
Declaration(n) ==
    <<"FUN", "IDENTIFIER", "LEFT_PAREN">> \o Separated("IDENTIFIER", n)
    \o <<"RIGHT_PAREN", "LEFT_BRACE", "RIGHT_BRACE">>

\* class x { x(x, ..., x) {} }
Method(n) ==
    <<"CLASS", "IDENTIFIER", "LEFT_BRACE", "IDENTIFIER", "LEFT_PAREN">>
    \o Separated("IDENTIFIER", n)
    \o <<"RIGHT_PAREN", "LEFT_BRACE", "RIGHT_BRACE", "RIGHT_BRACE">>

\* x(1, ..., 1);
CallStatement(n) ==
    <<"IDENTIFIER", "LEFT_PAREN">> \o Separated("NUMBER", n)
    \o <<"RIGHT_PAREN", "SEMICOLON">>

LimitInputs ==
    UNION {{Declaration(n), Method(n), CallStatement(n)} :
               n \in 0..MaxParameters}

LimitInit ==
    /\ mode \in {"file", "repl"}
    /\ parser \in {NewParse(Tokens(types), mode) : types \in LimitInputs}
    /\ lexer = NewLexer(<<>>)
    /\ NewInterpreter

LimitSpec == LimitInit /\ [][ParserNext]_vars

(***************************************************************************)
(* Parser.parse on assignment statements: target = ... = target = value;   *)
(***************************************************************************)
\* the left sides:  x  x.x  x.x.x  x().x  and  x()  x.x()  1  (x)  -x  x + x
Targets ==
    {<<"IDENTIFIER">>,
     <<"IDENTIFIER", "DOT", "IDENTIFIER">>,
     <<"IDENTIFIER", "DOT", "IDENTIFIER", "DOT", "IDENTIFIER">>,
     <<"IDENTIFIER", "LEFT_PAREN", "RIGHT_PAREN", "DOT", "IDENTIFIER">>,
     <<"IDENTIFIER", "LEFT_PAREN", "RIGHT_PAREN">>,
     <<"IDENTIFIER", "DOT", "IDENTIFIER", "LEFT_PAREN", "RIGHT_PAREN">>,
     <<"NUMBER">>,
     <<"LEFT_PAREN", "IDENTIFIER", "RIGHT_PAREN">>,
     <<"MINUS", "IDENTIFIER">>,
     <<"IDENTIFIER", "PLUS", "IDENTIFIER">>}

\* the values:  1  x + 1
Values == {<<"NUMBER">>, <<"IDENTIFIER", "PLUS", "NUMBER">>}

\* target = ... = target = value;
AssignStatement(targets, value) ==
    Flatten([i \in DOMAIN targets |-> targets[i] \o <<"EQUAL">>])
    \o value \o <<"SEMICOLON">>

AssignInputs ==
    {AssignStatement(targets, value) :
        targets \in UNION {[1..n -> Targets] : n \in 1..MaxTargets},
        value \in Values}

AssignInit ==
    /\ mode \in {"file", "repl"}
    /\ parser \in {NewParse(Tokens(types), mode) : types \in AssignInputs}
    /\ lexer = NewLexer(<<>>)
    /\ NewInterpreter

AssignSpec == AssignInit /\ [][ParserNext]_vars

(***************************************************************************)
(* The Lexer on its own: the source is chosen at the start, and the loop   *)
(* of scan_tokens is followed step by step in `lexer`.                     *)
(***************************************************************************)
\* whitespace, a comment, an identifier, a number with a decimal point, a
\* string with an escape, a one- and two-character operator
SourceCharacters == {" ", "\n", "/", "a", "1", ".", "'", "\\", "="}

\* a //b
\* 1
CommentBetween == <<"a", " ", "/", "/", "b", "\n", "1">>

\* the sources of at most MaxSource such characters, and the sources run
\* from a file
LexerInputs ==
    UNION {[1..n -> SourceCharacters] : n \in 0..MaxSource}
    \cup FileSources \cup {CommentBetween}

LexerInit ==
    /\ mode = "file"
    /\ parser = NoParse
    /\ lexer \in {NewLexer(source) : source \in LexerInputs}
    /\ NewInterpreter

\* scan_tokens has returned: the sentinel is appended
Lexed(l) == l.tokens # <<>> /\ l.tokens[Len(l.tokens)].token_type = "EOF"

Scanning == lexer.error = "" /\ ~Lexed(lexer)

\* a turn of the loop of scan_tokens in which scan_token returns
ScanToken ==
    /\ Scanning /\ ~Lexer_scanned(lexer)
    /\ scan_token(lexer).error = ""
    /\ lexer' = scan_token(lexer)
    /\ UNCHANGED <<mode, phase, ninputs, tree, code, lines, parser, locals,
                   result, heapVars, environment, stack, ret, output, log,
                   probeVars>>

\* a turn in which scan_token raises LexError or LexIncompleteError
ScanRaise ==
    /\ Scanning /\ ~Lexer_scanned(lexer)
    /\ scan_token(lexer).error # ""
    /\ lexer' = scan_token(lexer)
    /\ UNCHANGED <<mode, phase, ninputs, tree, code, lines, parser, locals,
                   result, heapVars, environment, stack, ret, output, log,
                   probeVars>>

\* the end of the loop: self.tokens.append(EOF)
ScanEnd ==
    /\ Scanning /\ Lexer_scanned(lexer)
    /\ lexer' = scan_tokens(lexer)
    /\ UNCHANGED <<mode, phase, ninputs, tree, code, lines, parser, locals,
                   result, heapVars, environment, stack, ret, output, log,
                   probeVars>>

LexerNext == ScanToken \/ ScanRaise \/ ScanEnd

LexerSpec == LexerInit /\ [][LexerNext]_vars

(***************************************************************************)
(* Parser.parse to its end: the parser is constructed on a token list,     *)
(* then the loop of parse takes its turns, as a sequential program does.   *)
(***************************************************************************)
\* Parser(tokens) and the call of parse(mode)
ParseStart ==
    /\ ninputs = 0 /\ parser = NoParse
    /\ ninputs' = 1
    /\ parser' \in {NewParse(Tokens(types), mode) : types \in ParserInputs}
    /\ UNCHANGED <<mode, phase, tree, code, lines, lexer, locals, result,
                   heapVars, environment, stack, ret, output, log, probeVars>>

ParserLiveNext == ParseStart \/ ParserNext

\* the loop of parse can take a turn or return: parse has not ended
ParseRunning == ~parser.raised /\ ~parser.returned

\* weak fairness of the turns of parse, WF_vars(ParserNext), with the
\* enabling condition of ParserNext written out as ParseRunning: a
\* sequential program that can take its next step takes it
ParserFair == []<>(~ParseRunning) \/ []<><<ParserNext>>_vars

ParserLive == Init /\ [][ParserLiveNext]_vars /\ ParserFair

(***************************************************************************)
(* Properties.                                                             *)
(***************************************************************************)
\* the unit p has been run to its end
Ran(p) == phase \in {"idle", "exited"} /\ ninputs > 0 /\ tree = p
\* the unit p has been run to its end from a file, by a fresh interpreter
FileRan(p) == mode = "file" /\ Ran(p)
Ok == result.status = "ok"
Failed(msg) == result.status = "InterpreterError" /\ result.msg = msg
Global(name) == frames[globals].vars[name]
Ints(seq) == [i \in DOMAIN seq |-> Integer(seq[i])]

\* C1: in a REPL session, once the evaluation of an input has ended,
\* normally or with an InterpreterError, interpreter.environment is the
\* globals frame again.
C1_EnvironmentIsGlobalsAtPrompt ==
    (mode = "repl" /\ phase = "idle"
        /\ result.status \in {"ok", "InterpreterError"})
    => environment = globals

\* C2: the evaluation of a program that resolved without error ends
\* normally or with an InterpreterError; no other exception kind escapes.
C2_OnlyInterpreterErrorEscapes ==
    (phase \in {"idle", "exited"}) => result.status # "Internal Error"

\* C3: every call of a user function creates a fresh frame whose parent is
\* the function's closure, and the closure of a declared function is the
\* frame that was current at its declaration, not the caller's frame; two
\* closures made by two calls of a factory count separately, one closure
\* called twice accumulates.
C3_CallFrames ==
    /\ \A i \in DOMAIN stack :
          stack[i].k = "LoxFunction.call" =>
              frames[stack[i].vs[2].v].enclosing =
                  functions[stack[i].vs[1].v].closure
    /\ FileRan(Counter) => Ok /\ output = Ints(<<1, 2, 1>>)
    /\ FileRan(CallerScope) => Ok /\ output = Ints(<<1>>)
C3_CallStep ==
    /\ (phase = "running" /\ Len(stack') > Len(stack)
          /\ stack'[Len(stack')].k = "LoxFunction.call")
       => LET created == stack'[Len(stack')].vs[2].v
          IN /\ created > Len(frames)
             /\ created = Len(frames')
             /\ environment' = created
             /\ SubSeq(frames', 1, Len(frames)) = frames
    /\ At("FunctionDef")
       => /\ Len(functions') = Len(functions) + 1
          /\ functions'[Len(functions')].closure = environment
          /\ frames'[environment].vars[top.n.name] =
                 FunctionValue(Len(functions'))
C3_Closures == []C3_CallFrames /\ [][C3_CallStep]_vars
C3_Witness == FileRan(Counter) /\ output = Ints(<<1, 2, 1>>)

\* C4: a return signal is caught by the innermost active call and by
\* nothing else: it passes through blocks, conditionals and loops
\* unchanged, the call hands back the returned value (nil for a bare
\* return or when the body falls off its end), the environment is again
\* the caller's frame, the caller goes on, and the signal never reaches the
\* driver.  (A construction hands back the instance.)
ReturnPropagating == ret.st = "exc" /\ ret.ty = "Return"
C4_ReturnState ==
    /\ ReturnPropagating =>
          /\ phase = "running"
          /\ \E i \in DOMAIN stack : stack[i].k = "LoxFunction.call"
    /\ result.ty # "Return"
    /\ (At("Call") /\ top.pc = 2 /\ ret.st = "val") =>
          /\ environment = top.env
          /\ top.vs[1].t = "Function" =>
                /\ ret.via \in {"return", "end"}
                /\ ret.via = "return" => ret.v = ret.rv
                /\ ret.via = "end" => ret.v = Nil
          /\ top.vs[1].t = "Class" => ret.v.t = "Instance"
    /\ FileRan(ReturnInLoop) => Ok /\ output = Ints(<<2, 5>>)
    /\ FileRan(ReturnInFor) => Ok /\ output = Ints(<<1>>)
    /\ FileRan(BareReturn) => Ok /\ output = <<Nil, Nil>>
    /\ FileRan(NestedCalls) => Ok /\ output = Ints(<<2>>)
    /\ FileRan(MethodReturns) => Ok /\ output = Ints(<<5>>)
C4_ReturnStep ==
    (ReturnPropagating /\ phase = "running" /\ stack # <<>>) =>
        /\ stack' = Pop
        /\ IF top.k = "LoxFunction.call"
           THEN /\ ret'.st = "val" /\ ret'.v = ret.v
                /\ environment' = top.env
           ELSE ret' = ret
C4_ReturnCaughtAtCall == []C4_ReturnState /\ [][C4_ReturnStep]_vars
C4_Witness == FileRan(ReturnInLoop) /\ output = Ints(<<2, 5>>)

\* C5: a block runs in a fresh frame whose parent is the frame current at
\* its entry; a var declaration changes only the current frame; when the
\* block is left, normally, by return or by error, the environment is the
\* frame of its entry again, so the outer binding of a shadowed name is
\* read again, unchanged by what was done to the inner one.
C5_BlockState ==
    /\ Ran(NestedBlocks) => Ok /\ output = Ints(<<2, 1>>)
    /\ FileRan(ShadowAssign) => Ok /\ output = Ints(<<3, 5>>)
    /\ FileRan(ShadowReturn) => Ok /\ output = Ints(<<2, 1>>)
    /\ FileRan(ShadowErrorFile) =>
          /\ Failed("object is not callable")
          /\ environment = globals
          /\ Global("x") = Integer(1)
C5_BlockStep ==
    /\ (At("Block") /\ top.pc = 0) =>
          /\ environment' = Len(frames) + 1
          /\ Len(frames') = Len(frames) + 1
          /\ frames'[environment'] = Environment(environment)
    /\ (phase = "running" /\ stack # <<>> /\ top.k = "Block" /\ top.pc > 0
          /\ Len(stack') < Len(stack))
       => environment' = top.env
    /\ At("VarDeclaration") =>
          \A e \in DOMAIN frames : e # environment => frames'[e] = frames[e]
C5_BlockScoping == []C5_BlockState /\ [][C5_BlockStep]_vars
C5_Witness == Ran(NestedBlocks) /\ output = Ints(<<2, 1>>)

\* C6: a call evaluates its callee, then all its arguments from left to
\* right, then checks callability, then arity, then invokes; the effects
\* of the arguments happen even when the call then fails.
C6_CallState ==
    /\ \A i \in DOMAIN stack :
          (stack[i].k = "Call" /\ stack[i].pc = 2) =>
              /\ Len(stack[i].vs) = Len(stack[i].n.arguments) + 1
              /\ stack[i].vs[1].t \in {"Function", "Class", "NativeClock"}
    /\ FileRan(ArgsThenNotCallable) =>
          Failed("object is not callable") /\ Global("x") = Integer(1)
    /\ FileRan(ArgsThenArity) =>
          /\ Failed("expected arguments") /\ Global("x") = Integer(2)
          /\ output = <<>>
          /\ log = <<<<"Literal", 8>>, <<"Call", 34>>, <<"Variable", 33>>,
                     <<"Assignment", 35>>, <<"Literal", 39>>,
                     <<"Assignment", 42>>, <<"Literal", 46>>>>
    /\ FileRan(CalleeFirst) =>
          Failed("expected arguments") /\ Global("x") = Integer(1)
\* the callee and the arguments evaluated so far, the one just handed back
\* included
Evaluated == Append(top.vs, ret.v)
C6_CallStep ==
    (At("Call") /\ top.pc = 1 /\ ret'.st = "exc") =>
        /\ Len(Evaluated) = Len(top.n.arguments) + 1
        /\ ret'.msg = "expected arguments" =>
              Evaluated[1].t \in {"Function", "Class", "NativeClock"}
C6_CallOrder == []C6_CallState /\ [][C6_CallStep]_vars
C6_Witness ==
    FileRan(ArgsThenNotCallable) /\ Global("x") = Integer(1)

\* C7: a call of a function, bound method, class or native function with
\* a number of arguments other than its arity raises InterpreterError
\* 'expected <arity> arguments, got <n>', runs nothing of the callee and
\* creates nothing; the arity of a class is that of its own init method,
\* 0 when it has none.
DeclaredArity(function) ==
    CASE function.t = "Function" ->
            Len(functions[function.v].declaration.parameters)
      [] function.t = "Class" ->
            LET methods == classes[function.v].methods
            IN IF "init" \in DOMAIN methods
               THEN Len(functions[methods["init"]].declaration.parameters)
               ELSE 0
      [] function.t = "NativeClock" -> 0
ArityFailure(expected, got) ==
    /\ Failed("expected arguments")
    /\ result.expected = expected /\ result.got = got
    /\ output = <<>>
C7_ArityState ==
    /\ FileRan(ArityFunction) => ArityFailure(1, 0)
    /\ FileRan(ArityClass) => ArityFailure(2, 1) /\ instances = <<>>
    /\ FileRan(ArityNoInit) => ArityFailure(0, 1) /\ instances = <<>>
    /\ FileRan(ArityNative) => ArityFailure(0, 1)
    /\ FileRan(ArityMethod) => ArityFailure(1, 0) /\ Len(instances) = 1
C7_ArityStep ==
    (/\ At("Call") /\ top.pc = 1
     /\ Len(Evaluated) = Len(top.n.arguments) + 1
     /\ Evaluated[1].t \in {"Function", "Class", "NativeClock"}
     /\ DeclaredArity(Evaluated[1]) # Len(top.n.arguments))
    => /\ ret'.st = "exc" /\ ret'.ty = "InterpreterError"
       /\ ret'.msg = "expected arguments"
       /\ ret'.index = top.n.index
       /\ ret'.expected = DeclaredArity(Evaluated[1])
       /\ ret'.got = Len(top.n.arguments)
       /\ stack' = Pop
       /\ UNCHANGED <<frames, functions, classes, instances, environment,
                      output>>
C7_ArityMismatch == []C7_ArityState /\ [][C7_ArityStep]_vars
C7_Witness ==
    FileRan(ArityClass) /\ result.expected = 2 /\ result.got = 1

\* C8 (as amended): nil, false, the numbers 0 and 0.0 and the empty string
\* are falsy, every other boolean, number and string is truthy, in the
\* conditions of if, while and for and as operand of !, and, or alike; the
\* test of a function, class, instance or native function raises
\* NotImplementedError.
FalsyValues == {Nil, Boolean(FALSE), Integer(0), Float(0), String("")}
Untestable == {"Function", "Class", "Instance", "NativeClock"}
ExpectedOutcome(value) ==
    IF value.t \in Untestable THEN "raised"
    ELSE IF value \in FalsyValues THEN "falsy" ELSE "truthy"
\* the value the expression e of a condition program evaluates to
TestedValue(e) ==
    IF e.k = "Literal" THEN e.value
    ELSE CASE e.name = "f" -> FunctionValue(1)
           [] e.name = "K" -> ClassValue(1)
           [] e.name = "o" -> InstanceValue(1)
           [] e.name = "clock" -> NativeClock
\* what the condition program of ctx prints when the test is truthy
ExpectedPrint(ctx, value, truthy) ==
    CASE ctx \in {"if", "while", "for"} ->
            IF truthy THEN String("T") ELSE String("F")
      [] ctx = "!" -> Boolean(~truthy)
      [] ctx = "and" -> IF truthy THEN String("R") ELSE value
      [] ctx = "or" -> IF truthy THEN value ELSE String("R")
LoxType(value) == IF value.t \in {"Integer", "Float"} THEN "Number" ELSE value.t
SameValue(a, b) == LoxType(a) = LoxType(b) /\ a.v = b.v /\ a.s = b.s
C9_EqualityByTypeAndValue ==
    /\ last.op = "==" =>
          last.result = Boolean(SameValue(last.left, last.right))
    /\ last.op = "!=" =>
          last.result = Boolean(~SameValue(last.left, last.right))

\* C10: and/or evaluate the left operand first and once; or hands back a
\* truthy left operand and and a falsy left operand without evaluating
\* the right operand; otherwise the right operand is evaluated and its
\* value is the result.  false and (1/0) is false, 7 or (0/0) is 7.
EarlyReturn(op, left_value) ==
    IF op = "or" THEN left_value \notin FalsyValues
    ELSE left_value \in FalsyValues
C10_LogicalState ==
    /\ last.op \in {"and", "or"} =>
          IF EarlyReturn(last.op, last.left)
          THEN ~last.right_evaluated /\ last.result = last.left
          ELSE last.right_evaluated /\ last.result = last.right
    /\ \A a \in LiteralValues, b \in LiteralValues, op \in {"and", "or"} :
          FileRan(BinaryProgram(a, op, b)) =>
              /\ Ok
              /\ output = <<IF EarlyReturn(op, a) THEN a ELSE b>>
              /\ log = <<<<"Binary", 6>>, <<"Literal", 6>>>>
                       \o (IF EarlyReturn(op, a) THEN <<>>
                           ELSE <<<<"Literal", 12>>>>)
    /\ FileRan(FalseAndDivide) => Ok /\ output = <<Boolean(FALSE)>>
    /\ FileRan(SevenOrDivide) => Ok /\ output = Ints(<<7>>)
    /\ FileRan(ShortCircuitTest) => Ok /\ output = Ints(<<7>>)
    /\ FileRan(OperandEffects) => Ok /\ output = <<Integer(1), Nil, Nil>>
C10_LogicalStep ==
    (/\ At("Binary") /\ top.pc = 1 /\ top.n.operator \in {"and", "or"}
     /\ ret.v.t \notin Untestable
     /\ EarlyReturn(top.n.operator, ret.v))
    => stack' = Pop /\ ret' = Val(ret.v) /\ log' = log
RECURSIVE ThisFrame(_)
\* the nearest frame from e outwards that binds `this`, 0 when none does
ThisFrame(e) ==
    IF e = 0 THEN 0
    ELSE IF "this" \in DOMAIN frames[e].vars THEN e
    ELSE ThisFrame(frames[e].enclosing)
\* the classes whose method objects close over frame e
ClassesClosedOver(e) ==
    {c \in DOMAIN classes :
        \E name \in DOMAIN classes[c].methods :
            functions[classes[c].methods[name]].closure = e}
RECURSIVE MethodAlong(_, _)
\* the first method called name along c, its superclass, ...; 0 when none
MethodAlong(c, name) ==
    IF c = 0 THEN 0
    ELSE IF name \in DOMAIN classes[c].methods THEN classes[c].methods[name]
    ELSE MethodAlong(classes[c].superclass, name)
\* r is the value of a method object of function mth bound to instance
IsBound(r, mth, instance) ==
    /\ r.st = "val" /\ r.v.t = "Function"
    /\ r.v.v = Len(functions') /\ r.v.v > Len(functions)
    /\ functions'[r.v.v].declaration = functions[mth].declaration
    /\ functions'[r.v.v].closure = Len(frames')
    /\ Len(frames') = Len(frames) + 1
    /\ frames'[Len(frames')] = [vars |-> ("this" :> instance),
                                enclosing |-> functions[mth].closure]
C11_SuperState ==
    /\ FileRan(SuperSimple) => Ok /\ output = <<String("B"), String("A")>>
    /\ FileRan(SuperChain) => Ok /\ output = Ints(<<5>>)
C11_SuperStep ==
    (At("Super") /\ ret'.st = "val") =>
        LET this == ThisFrame(environment)
            declaring == ClassesClosedOver(frames[this].enclosing)
        IN /\ this # 0
           /\ declaring # {}
           /\ \A c \in declaring :
                 /\ classes[c].superclass # 0
                 /\ MethodAlong(classes[c].superclass,
                                top.n.method.name) # 0
                 /\ IsBound(ret', MethodAlong(classes[c].superclass,
                                              top.n.method.name),
                            frames[this].vars["this"])
C11_SuperLookup == []C11_SuperState /\ [][C11_SuperStep]_vars
C11_Witness == FileRan(SuperChain) /\ output = Ints(<<5>>)

\* C12: reading property n of an instance hands back the field n when the
\* instance has one; otherwise the first method n along the chain class,
\* superclass, ..., bound to the instance through a fresh frame defining
\* `this`; otherwise it raises InterpreterError.
C12_GetState ==
    FileRan(PropertyLookup) =>
        /\ Failed("object has no attribute") /\ result.index = 213
        /\ output = Ints(<<1, 20, 30, 9>>)
C12_GetStep ==
    (At("Get") /\ top.pc = 1 /\ ret.v.t = "Instance") =>
        LET instance == instances[ret.v.v]
            name == top.n.name
            method == MethodAlong(instance.class_object, name)
        IN /\ stack' = Pop
           /\ IF name \in DOMAIN instance.fields
              THEN /\ ret' = Val(instance.fields[name])
                   /\ UNCHANGED <<frames, functions>>
              ELSE IF method # 0
              THEN IsBound(ret', method, ret.v)
              ELSE /\ ret'.st = "exc" /\ ret'.ty = "InterpreterError"
                   /\ ret'.msg = "object has no attribute"
                   /\ UNCHANGED <<frames, functions>>
           /\ UNCHANGED <<classes, instances, environment>>
C12_PropertyLookup == []C12_GetState /\ [][C12_GetStep]_vars
C12_Witness ==
    FileRan(PropertyLookup) /\ output = Ints(<<1, 20, 30, 9>>)

\* C13: obj.n = v on an instance writes field n of that instance only and
\* evaluates to v; the classes, the other instances and the environment
\* frames are unchanged.  On a value that is not an instance it raises
\* InterpreterError and changes nothing.
C13_SetStep ==
    /\ (At("Set") /\ top.pc = 1 /\ ret.v.t # "Instance") =>
          /\ ret'.st = "exc" /\ ret'.ty = "InterpreterError"
          /\ stack' = Pop
          /\ UNCHANGED <<frames, functions, classes, instances, environment>>
    /\ (At("Set") /\ top.pc = 2) =>
          /\ ret' = Val(ret.v)
          /\ stack' = Pop
          /\ DOMAIN instances' = DOMAIN instances
          /\ \A i \in DOMAIN instances :
                IF i = top.vs[1].v
                THEN /\ instances'[i].class_object = instances[i].class_object
                     /\ DOMAIN instances'[i].fields =
                            DOMAIN instances[i].fields \cup {top.n.name}
                     /\ \A f \in DOMAIN instances'[i].fields :
                           instances'[i].fields[f] =
                               IF f = top.n.name THEN ret.v
                               ELSE instances[i].fields[f]
                ELSE instances'[i] = instances[i]
          /\ UNCHANGED <<frames, functions, classes, environment>>
C13_SetWritesOneField == [][C13_SetStep]_vars

\* C14: an assignment to a name that no enclosing local scope declares and
\* that globals does not bind raises InterpreterError 'Assigning to
\* variable ... before declaration' and binds nothing.  Stated for the
\* assignments that stand outside every block, function and class, which
\* have no enclosing local scope at all.
OutsideLocalScopes ==
    /\ environment = globals
    /\ \A i \in DOMAIN stack :
          stack[i].k \notin {"Block", "LoxFunction.call", "ClassDef"}
C14_AssignStep ==
    (/\ At("Assignment") /\ top.pc = 1
     /\ OutsideLocalScopes
     /\ top.n.name \notin DOMAIN frames[globals].vars)
    => /\ ret'.st = "exc" /\ ret'.ty = "InterpreterError"
       /\ ret'.msg = "Assigning to variable before declaration"
       /\ frames' = frames
C14_NoImplicitGlobal == [][C14_AssignStep]_vars

\* the child nodes of a node, in field order
ChildrenOf(node) ==
    CASE node.k \in {"None", "Literal", "Variable", "This", "Super"} -> <<>>
      [] node.k = "Assignment" -> <<node.value>>
      [] node.k = "Unary" -> <<node.right>>
      [] node.k = "Binary" -> <<node.left, node.right>>
      [] node.k = "Grouping" -> <<node.expression>>
      [] node.k = "Call" -> <<node.callee>> \o node.arguments
      [] node.k = "Get" -> <<node.object>>
      [] node.k = "Set" -> <<node.object, node.value>>
      [] node.k = "VarDeclaration" -> <<node.initializer>>
      [] node.k \in {"FunctionDef", "Block", "Program"} -> node.body
      [] node.k = "ClassDef" -> node.methods
      [] node.k \in {"Print", "ReturnStmt"} -> <<node.value>>
      [] node.k = "If" -> <<node.condition, node.body, node.else_body>>
      [] node.k = "While" -> <<node.condition, node.body>>
      [] node.k = "For" -> <<node.initializer, node.condition,
                             node.increment, node.body>>
      [] node.k = "ExprStmt" -> <<node.expression>>
Rejected == ninputs > 0 /\ result.status = "ParseError"
RejectedFor(msg) == Rejected /\ result.msg = msg

\* C15: the resolver raises ParseError for a `this` expression exactly when
\* the expression is not lexically inside a class body, with or without a
\* superclass, whatever blocks and functions surround it inside the class.
RECURSIVE ThisOutsideClass(_, _)
\* node holds a `this` that no class body encloses; inside: node is in one
ThisOutsideClass(node, inside) ==
    IF node.k = "This" THEN ~inside
    ELSE \E i \in DOMAIN ChildrenOf(node) :
            ThisOutsideClass(ChildrenOf(node)[i],
                             inside \/ node.k = "ClassDef")
C15_ThisOnlyInClasses ==
    ninputs > 0 =>
        /\ RejectedFor("Cannot use 'this' outside of a class") =>
              ThisOutsideClass(tree, FALSE)
        /\ ThisOutsideClass(tree, FALSE) => Rejected

\* C16: the resolver raises ParseError 'Cannot return outside of a
\* function' for a return statement exactly when the statement is not
\* lexically inside a function or method body; inside one it is accepted
\* at any position, after a closed nested function or class included.
RECURSIVE ReturnOutsideFunction(_, _)
\* node holds a return that no function body encloses
ReturnOutsideFunction(node, inside) ==
    \/ node.k = "ReturnStmt" /\ ~inside
    \/ \E i \in DOMAIN ChildrenOf(node) :
          ReturnOutsideFunction(ChildrenOf(node)[i],
                                inside \/ node.k = "FunctionDef")
C16_ReturnOnlyInFunctions ==
    ninputs > 0 =>
        /\ RejectedFor("Cannot return outside of a function") =>
              ReturnOutsideFunction(tree, FALSE)
        /\ ReturnOutsideFunction(tree, FALSE) => Rejected

\* C17: the resolver raises ParseError 'Variable ... already defined in
\* this scope' exactly when a name is declared a second time in the same
\* local scope (a block, a function body with its parameters, a class
\* body with its methods); a redeclaration at global scope and a
\* declaration that shadows an enclosing scope are accepted, and a var
\* statement never fails at run time.
RECURSIVE DirectDeclarations(_), DeclarationsOf(_)
\* the names a statement declares in the scope it stands in
DirectDeclarations(node) ==
    CASE node.k \in {"VarDeclaration", "FunctionDef", "ClassDef"} ->
            <<node.name>>
      [] node.k = "If" ->
            DirectDeclarations(node.body) \o DirectDeclarations(node.else_body)
      [] node.k = "While" -> DirectDeclarations(node.body)
      [] node.k = "For" ->
            DirectDeclarations(node.initializer)
                \o DirectDeclarations(node.body)
      [] OTHER -> <<>>
DeclarationsOf(statements) ==
    IF statements = <<>> THEN <<>>
    ELSE DirectDeclarations(Head(statements))
             \o DeclarationsOf(Tail(statements))
HasDuplicate(names) ==
    \E i, j \in DOMAIN names : i < j /\ names[i] = names[j]
RECURSIVE LocalRedeclaration(_)
\* some local scope of node declares a name twice
LocalRedeclaration(node) ==
    \/ node.k = "Block" /\ HasDuplicate(DeclarationsOf(node.body))
    \/ node.k = "FunctionDef"
          /\ HasDuplicate(node.parameters \o DeclarationsOf(node.body))
    \/ node.k = "ClassDef" /\ HasDuplicate(DeclarationsOf(node.methods))
    \/ \E i \in DOMAIN ChildrenOf(node) :
          LocalRedeclaration(ChildrenOf(node)[i])
C17_RedeclarationState ==
    /\ ninputs > 0 =>
          /\ RejectedFor("already defined in this scope") =>
                LocalRedeclaration(tree)
          /\ LocalRedeclaration(tree) => Rejected
    /\ FileRan(RedeclareAndShadow) => Ok /\ output = Ints(<<3, 2>>)
C17_RedeclarationStep ==
    (At("VarDeclaration")
        /\ (top.pc = 1 \/ top.n.initializer = None)) =>
        /\ ret' = Val(Nil)
        /\ frames'[environment].vars[top.n.name] =
               IF top.n.initializer = None THEN Nil ELSE ret.v
UnitFails(text, unit, parse_mode, locals_) ==
    IF text = <<>> THEN ResolverVisit(locals_, unit).error # ""
    ELSE LET l == Lexer(text)
             parsed == parse(l.tokens, parse_mode)
         IN \/ l.error # ""
            \/ parsed.errors # <<>>
            \/ parsed.raised # None
            \/ ResolverVisit(locals_, parsed.program).error # ""

\* C18: a compilation unit (a file, or one buffered REPL input) whose
\* lexing, parsing or resolving fails executes none of its statements: it
\* prints nothing and changes no frame, the globals included, even when
\* the erroneous construct comes after valid statements.
C18_UnitState ==
    \A text \in {UnknownCharacter, MissingOperand, LateReturn} :
        (mode = "file" /\ ninputs > 0 /\ code = text) =>
            /\ phase = "exited"
            /\ output = <<>>
            /\ frames = <<create_globals>>
C18_UnitStep ==
    /\ (ninputs' # ninputs /\ UnitFails(code', tree', mode, locals)) =>
          /\ phase' # "running"
          /\ stack' = <<>>
          /\ output' = <<>>
          /\ UNCHANGED <<heapVars, environment>>
    /\ (phase # "running" /\ ninputs' = ninputs) =>
          UNCHANGED <<heapVars, environment, output>>
C18_FailedUnitNotRun == []C18_UnitState /\ [][C18_UnitStep]_vars
C18_Witness ==
    /\ mode = "repl" /\ ninputs = 2 /\ phase = "idle"
    /\ code = MissingOperand
    /\ result.status = "ParseError"
    /\ output = <<>>
    /\ DOMAIN frames[globals].vars = {"clock"}

\* the token types of a token list, EOF left out
TypesOf(tokens) == [i \in 1..Len(tokens) - 1 |-> tokens[i].token_type]

\* the statements of a source: its tokens cut after every semicolon
RECURSIVE SplitStatements(_, _)
SplitStatements(types, statement) ==
    IF types = <<>>
    THEN IF statement = <<>> THEN <<>> ELSE <<statement>>
    ELSE IF Head(types) = "SEMICOLON"
    THEN <<Append(statement, "SEMICOLON")>>
             \o SplitStatements(Tail(types), <<>>)
    ELSE SplitStatements(Tail(types), Append(statement, Head(types)))

\* the number of tokens before statement i
RECURSIVE Offset(_, _)
Offset(statements, i) ==
    IF i = 1 THEN 0
    ELSE Offset(statements, i - 1) + Len(statements[i - 1])

\* the node of a good statement whose first token has the given index
NodeOf(statement, index) ==
    CASE statement = <<"PRINT", "NUMBER", "SEMICOLON">> ->
            PrintStmt(Num(1, index + 1))
      [] statement = <<"IDENTIFIER", "EQUAL", "NUMBER", "SEMICOLON">> ->
            ExprStmt(Assignment("x", Num(1, index + 2), index))
      [] statement = <<"VAR", "IDENTIFIER", "SEMICOLON">> ->
            VarDeclaration("x", None)

\* the subsequence of the positions of seq that are in the set
RECURSIVE Select(_, _, _)
Select(seq, positions, i) ==
    IF i > Len(seq) THEN <<>>
    ELSE (IF i \in positions THEN <<seq[i]>> ELSE <<>>)
             \o Select(seq, positions, i + 1)

\* C19: in mode "file" parse returns (program, errors) and raises nothing;
\* for a source of top-level statements that each end with `;`, of which
\* k each hold one syntax error detected before their `;`, errors has
\* exactly k entries, in source order, one in each erroneous statement,
\* and program.body holds exactly the other statements, in order.
C19_OneErrorPerStatement ==
    (parser.mode = "file" /\ (parser.returned \/ parser.raised)) =>
        LET statements == SplitStatements(TypesOf(parser.p.tokens), <<>>)
            good == {i \in DOMAIN statements : statements[i] \in GoodStatements}
            bad == {i \in DOMAIN statements : statements[i] \in BadStatements}
            starts == [i \in DOMAIN statements |-> Offset(statements, i)]
        IN (good \cup bad = DOMAIN statements) =>
              /\ parser.returned
              /\ Len(parser.errors) = Cardinality(bad)
              /\ \A j \in DOMAIN parser.errors :
                    LET i == Select([n \in DOMAIN statements |-> n], bad, 1)[j]
                    IN /\ parser.errors[j].index >= starts[i]
                       /\ parser.errors[j].index < starts[i] + Len(statements[i])
              /\ parser.body =
                    Select([n \in DOMAIN statements |->
                                IF n \in good
                                THEN NodeOf(statements[n], starts[n])
                                ELSE None],
                           good, 1)

\* The programs over Alphabet, after the grammar in the docstring of
\* Parser: statements `print e;` and `e;`, where e is a number, x, x = e,
\* (e), or a call e() or e(e).  A reading of a token list is the place in
\* the grammar its last token leaves it at and the number of parentheses
\* open: "start" before a statement, "expr" where an expression must
\* begin, "call" after the parenthesis of a call, "target" after an x that
\* may be assigned to, "operand" after any other complete operand, and
\* "dead" once no program begins with the tokens read.
GrammarStep(g, type) ==
    LET dead == [state |-> "dead", depth |-> 0]
        begin == CASE type = "IDENTIFIER" -> [g EXCEPT !.state = "target"]
                   [] type = "NUMBER" -> [g EXCEPT !.state = "operand"]
                   [] type = "LEFT_PAREN" ->
                         [state |-> "expr", depth |-> g.depth + 1]
                   [] OTHER -> dead
        continue ==
            CASE type = "LEFT_PAREN" ->
                    [state |-> "call", depth |-> g.depth + 1]
              [] type = "RIGHT_PAREN" /\ g.depth > 0 ->
                    [state |-> "operand", depth |-> g.depth - 1]
              [] type = "SEMICOLON" /\ g.depth = 0 ->
                    [state |-> "start", depth |-> 0]
              [] OTHER -> dead
    IN CASE g.state = "start" ->
               IF type = "PRINT" THEN [g EXCEPT !.state = "expr"] ELSE begin
         [] g.state = "expr" -> begin
         [] g.state = "call" ->
               IF type = "RIGHT_PAREN"
               THEN [state |-> "operand", depth |-> g.depth - 1]
               ELSE begin
         [] g.state = "target" ->
               IF type = "EQUAL" THEN [g EXCEPT !.state = "expr"]
               ELSE continue
         [] g.state = "operand" -> continue
         [] OTHER -> dead

RECURSIVE Reading(_)
Reading(types) ==
    IF types = <<>> THEN [state |-> "start", depth |-> 0]
    ELSE GrammarStep(Reading(SubSeq(types, 1, Len(types) - 1)),
                     types[Len(types)])

\* C20: in mode "repl" parse raises at the first syntax error, and the
\* kind of the error tells incomplete from wrong input: a token list that
\* is a proper prefix of a valid program without being one raises
\* ParseEOFError, a token list whose first error is at a token other than
\* EOF raises a ParseError that is not a ParseEOFError.
C20_EofErrorIffIncomplete ==
    (/\ parser.mode = "repl"
     /\ parser.returned \/ parser.raised
     /\ \A i \in DOMAIN TypesOf(parser.p.tokens) :
           TypesOf(parser.p.tokens)[i] \in Alphabet) =>
        LET reading == Reading(TypesOf(parser.p.tokens)).state
        IN /\ reading = "start" => parser.returned
           /\ reading \notin {"start", "dead"} =>
                 parser.raised /\ parser.p.error = "ParseEOFError"
           /\ reading = "dead" =>
                 parser.raised /\ parser.p.error = "ParseError"

\* where the text ends: in code, in a comment, or inside a string literal
\* opened by the quote character `quote`; `escaped` tells that the character
\* follows a backslash of the string
RECURSIVE EndsIn(_, _, _, _)
EndsIn(text, i, quote, escaped) ==
    IF i > Len(text) THEN quote
    ELSE IF quote = "//"
    THEN EndsIn(text, i + 1, IF text[i] = "\n" THEN "" ELSE quote, FALSE)
    ELSE IF quote # ""
    THEN IF escaped THEN EndsIn(text, i + 1, quote, FALSE)
         ELSE IF text[i] = "\\" THEN EndsIn(text, i + 1, quote, TRUE)
         ELSE EndsIn(text, i + 1, IF text[i] = quote THEN "" ELSE quote,
                     FALSE)
    ELSE IF text[i] \in {"'", "\""} THEN EndsIn(text, i + 1, text[i], FALSE)
    ELSE IF text[i] = "/" /\ i < Len(text) /\ text[i + 1] = "/"
    THEN EndsIn(text, i + 2, "//", FALSE)
    ELSE EndsIn(text, i + 1, "", FALSE)

\* the closing quote of a string literal is missing at the end of the text
UnterminatedString(text) == EndsIn(text, 1, "", FALSE) \in {"'", "\""}

\* C21: a text whose last string literal has no closing quote at the end of
\* input gives LexError 'Unterminated string' when it is a file, and at the
\* prompt gives LexIncompleteError, after which the lines entered so far are
\* kept for a continuation line
C21_UnterminatedString ==
    (phase \in {"idle", "exited"} /\ ninputs > 0 /\ UnterminatedString(code))
    => IF mode = "file"
       THEN result.status = "LexError" /\ result.msg = "Unterminated string"
       ELSE result.status = "LexIncompleteError" /\ lines # <<>>
            /\ JoinLines(lines) = code

\* the number of parameters or arguments of the declaration or call that
\* the token list is
Commas(tokens) ==
    Cardinality({i \in DOMAIN tokens : tokens[i].token_type = "COMMA"})

CountOf(tokens) ==
    IF \E i \in DOMAIN tokens :
           /\ tokens[i].token_type = "LEFT_PAREN"
           /\ tokens[i + 1].token_type = "RIGHT_PAREN"
    THEN 0 ELSE Commas(tokens) + 1

\* the opening parenthesis
Bracket(tokens) ==
    tokens[CHOOSE i \in DOMAIN tokens : tokens[i].token_type = "LEFT_PAREN"]

\* the parameters or arguments of the node parsed
ListOf(node) ==
    CASE node.k = "FunctionDef" -> node.parameters
      [] node.k = "ClassDef" -> node.methods[1].parameters
      [] node.k = "ExprStmt" -> node.expression.arguments

\* the ParseError is the one of the limit, at the opening parenthesis
LimitError(error, tokens) ==
    /\ error.ty = "ParseError"
    /\ error.msg \in
         {"More than 255 parameters not allowed in a function definition",
          "More than 255 arguments not allowed in a function call"}
    /\ error.index = Bracket(tokens).index

\* C22: a function or method declaration with n parameters and a call with
\* n arguments parse without error, into a node with n parameters or
\* arguments, when n is at most 255, and raise the ParseError 'More than 255
\* ... not allowed', indexed at the opening parenthesis, when n is 256 or
\* more
C22_ArgumentLimit ==
    /\ (parser.errors # <<>> \/ parser.raised)
       => CountOf(parser.p.tokens) > MaxArguments
    /\ parser.errors # <<>> => LimitError(parser.errors[1], parser.p.tokens)
    /\ parser.raised => LimitError(ParseErrorOf(parser.p), parser.p.tokens)
    /\ parser.returned /\ CountOf(parser.p.tokens) <= MaxArguments
       => /\ parser.errors = <<>>
          /\ Len(parser.body) = 1
          /\ Len(ListOf(parser.body[1])) = CountOf(parser.p.tokens)
    /\ parser.returned /\ CountOf(parser.p.tokens) > MaxArguments
       => parser.errors # <<>>

\* a call with 256 arguments has raised at the prompt
C22_Witness ==
    /\ parser.raised
    /\ CountOf(parser.p.tokens) = MaxArguments + 1
    /\ parser.p.tokens[1].token_type = "IDENTIFIER"
    /\ parser.p.msg = "More than 255 arguments not allowed in a function call"

\* the position of the k-th `=` of the statement, and the number of them
EqualAt(tokens, k) ==
    CHOOSE i \in DOMAIN tokens :
        /\ tokens[i].token_type = "EQUAL"
        /\ Cardinality({j \in 1..i : tokens[j].token_type = "EQUAL"}) = k

Equals(tokens) ==
    Cardinality({i \in DOMAIN tokens : tokens[i].token_type = "EQUAL"})

\* the expression that the tokens from..to of the statement are, parsed on
\* their own by parse_logical_or
Operand(tokens, from, to) ==
    ParseBinary(1, [NewParser(SubSeq(tokens, 1, to) \o <<EOF>>)
                        EXCEPT !.index = from - 1]).node

\* the k-th left side, and the value after the last `=`
TargetOf(tokens, k) ==
    Operand(tokens, IF k = 1 THEN 1 ELSE EqualAt(tokens, k - 1) + 1,
            EqualAt(tokens, k) - 1)

ValueOf(tokens) ==
    Operand(tokens, EqualAt(tokens, Equals(tokens)) + 1, Len(tokens) - 2)

\* the node of  target k = ... = value, nested to the right
RECURSIVE AssignedFrom(_, _)
AssignedFrom(tokens, k) ==
    IF k > Equals(tokens) THEN ValueOf(tokens)
    ELSE IF TargetOf(tokens, k).k = "Variable"
    THEN Assignment(TargetOf(tokens, k).name, AssignedFrom(tokens, k + 1),
                    TargetOf(tokens, k).index)
    ELSE Set(TargetOf(tokens, k).object, TargetOf(tokens, k).name,
             AssignedFrom(tokens, k + 1), TargetOf(tokens, k).index)

\* the left sides that are no variable and no property
BadTargets(tokens) ==
    {k \in 1..Equals(tokens) :
        TargetOf(tokens, k).k \notin {"Variable", "Get"}}

\* the ParseError is 'Invalid assign target', at the `=` of a bad target
InvalidTarget(error, tokens) ==
    /\ error.ty = "ParseError"
    /\ \E k \in BadTargets(tokens) :
          /\ error.msg = "Invalid assign target: "
                             \o Repr(TargetOf(tokens, k).k)
          /\ error.index = tokens[EqualAt(tokens, k)].index

\* C23: target = ... = target = value; parses into the assignments nested
\* to the right, an Assignment for a variable and a Set on the object of a
\* property, when every left side is a variable or a property; and when
\* one is another kind of expression the ParseError 'Invalid assign target'
\* is raised and the statement gives no node
C23_AssignmentTargets ==
    /\ parser.returned /\ BadTargets(parser.p.tokens) = {}
       => /\ parser.errors = <<>>
          /\ parser.body = <<ExprStmt(AssignedFrom(parser.p.tokens, 1))>>
    /\ (parser.errors # <<>> \/ parser.raised)
       => /\ BadTargets(parser.p.tokens) # {}
          /\ parser.body = <<>>
    /\ parser.errors # <<>>
       => /\ Len(parser.errors) = 1
          /\ InvalidTarget(parser.errors[1], parser.p.tokens)
    /\ parser.raised => InvalidTarget(ParseErrorOf(parser.p), parser.p.tokens)
    /\ parser.returned /\ BadTargets(parser.p.tokens) # {}
       => parser.errors # <<>> /\ parser.body = <<>>

\* x = x.x = 1; is parsed: an Assignment whose value is a Set
C23_Witness ==
    /\ parser.returned
    /\ Equals(parser.p.tokens) = 2
    /\ Len(parser.body) = 1
    /\ parser.body[1].expression.k = "Assignment"
    /\ parser.body[1].expression.value.k = "Set"
    /\ parser.body[1].expression.value.object.k = "Variable"
    /\ parser.body[1].expression.value.value = Literal(Integer(1), 6)

\* the unit is the first one of a fresh interpreter, and the resolver has
\* visited it
FirstResolved ==
    /\ ninputs = 1
    /\ result.status \notin {"LexError", "LexIncompleteError"}
    /\ ~parser.raised /\ parser.errors = <<>>

\* C24: the resolution table of a fresh interpreter is a function of the
\* tree alone: in whatever state the interpreter and its heap are, the
\* table is the one the resolver computes from the tree and an empty table
C24_TableState == FirstResolved => locals = ResolverVisit({}, tree).locals

\* evaluation never writes the table
C24_TableStep == phase = "running" => locals' = locals

BoundAt(depth, name) ==
    /\ ancestor(environment, depth) # 0
    /\ name \in DOMAIN frames[ancestor(environment, depth)].vars

\* the innermost activation is about to use the depth recorded for its
\* expression: a variable read, `this`, `super`, or an assignment whose value
\* has been evaluated
UsesDepth ==
    /\ \/ At("Variable") \/ At("This") \/ At("Super")
       \/ At("Assignment") /\ top.pc = 1
    /\ LocalsGet(locals, top.n) # -1

\* the name the innermost activation looks up
NameUsed ==
    CASE top.k = "This" -> "this"
      [] top.k = "Super" -> "super"
      [] OTHER -> top.n.name

\* C25: in the first program of a fresh interpreter, whenever an expression
\* with a recorded depth d is evaluated, the frame d enclosing links up from
\* the current environment exists and binds the name (and for `super` the
\* frame d - 1 links up binds `this`)
C25_DepthMirrorsFrames ==
    (FirstResolved /\ UsesDepth) =>
        /\ BoundAt(LocalsGet(locals, top.n), NameUsed)
        /\ top.k = "Super" => BoundAt(LocalsGet(locals, top.n) - 1, "this")

\* the innermost frame from e outward that binds name; 0 when none does
RECURSIVE Declaring(_, _)
Declaring(e, name) ==
    IF e = 0 THEN 0
    ELSE IF name \in DOMAIN frames[e].vars THEN e
    ELSE Declaring(frames[e].enclosing, name)

\* a class declaration has just evaluated its superclass name, and that name
\* is declared in a local scope enclosing the declaration
LocalSuperclassName ==
    /\ phase = "running" /\ stack # <<>>
    /\ top.k = "ClassDef" /\ top.pc = 1
    /\ Declaring(top.env, top.n.superclass.name) \notin {0, globals}

\* C26: the superclass name of a class declared in a block or function is
\* resolved lexically: when the name is declared in an enclosing local scope,
\* the class inherits from the value bound in the innermost such scope, not
\* from a global of that name
C26_SuperclassLexical ==
    LocalSuperclassName =>
        ret = Val(frames[Declaring(top.env, top.n.superclass.name)]
                      .vars[top.n.superclass.name])

\* the innermost activation evaluates an expression of the unit being run
\* (no call is in progress, so no body of an earlier unit's function is),
\* and the expression is one the table is consulted for
OwnExpression ==
    /\ phase = "running" /\ stack # <<>>
    /\ top.k \in {"Variable", "Assignment", "This", "Super"}
    /\ \A i \in 1..Len(stack) : stack[i].k # "Call"

\* C27: the depth the table holds for an expression of the unit being run is
\* the one the resolver recorded for that unit, and none when the resolver
\* treated the reference as global: no entry of an earlier unit is used
C27_EntriesPerOccurrence ==
    (OwnExpression /\ ~parser.raised /\ parser.errors = <<>>) =>
        LocalsGet(locals, top.n) = LocalsGet(ResolverVisit({}, tree).locals, top.n)

\* visit_Call has evaluated the callee and every argument, and the callee is
\* a class: the class is about to be called or its arity reported
Constructing ==
    /\ At("Call") /\ top.pc = 1
    /\ Len(top.vs) = Len(top.n.arguments)
    /\ Append(top.vs, ret.v)[1].t = "Class"

\* the class being constructed
Constructed == Append(top.vs, ret.v)[1]

\* C28: the initializer a class call runs is the `init` that property lookup
\* finds from the class along its superclass chain, and the arity of the
\* class is that method's number of parameters, 0 when there is none
C28_ConstructionLookup ==
    Constructing =>
        /\ Initializer(Constructed.v) = MethodAlong(Constructed.v, "init")
        /\ arity(Constructed) =
               IF MethodAlong(Constructed.v, "init") = 0 THEN 0
               ELSE Len(functions[MethodAlong(Constructed.v, "init")]
                            .declaration.parameters)

\* the tokens before the sentinel
Lexemes(l) == SubSeq(l.tokens, 1, Len(l.tokens) - 1)

\* the offset after the last character of the token
SpanEnd(token) == token.index + Len(token.string)

\* the character at offset k of the source belongs to the span of a token
Covered(l, k) ==
    \E i \in 1..Len(l.tokens) - 1 :
        l.tokens[i].index <= k /\ k < SpanEnd(l.tokens[i])

\* the character at offset k is part of a comment: a `//` outside every
\* token starts at or before it, with no newline from there to k
InComment(l, k) ==
    \E c \in 0..k :
        /\ c + 2 <= Len(l.source)
        /\ l.source[c + 1] = "/" /\ l.source[c + 2] = "/"
        /\ ~Covered(l, c) /\ ~Covered(l, c + 1)
        /\ \A j \in c..k : l.source[j + 1] # "\n"

\* one sentinel, at the end
OneSentinel(l) ==
    /\ l.tokens[Len(l.tokens)] = EOF
    /\ \A i \in 1..Len(l.tokens) - 1 : l.tokens[i].token_type # "EOF"

\* every token before the sentinel is the text of the source at its index
LexemesFromSource(l) ==
    \A i \in 1..Len(l.tokens) - 1 :
        /\ l.tokens[i].index >= 0 /\ SpanEnd(l.tokens[i]) <= Len(l.source)
        /\ Len(l.tokens[i].string) > 0
        /\ l.tokens[i].string =
               Join(Slice(l.source, l.tokens[i].index, SpanEnd(l.tokens[i])))

\* the spans of the tokens before the sentinel follow one another
SpansInOrder(l) ==
    \A i, j \in 1..Len(l.tokens) - 1 :
        i < j => SpanEnd(l.tokens[i]) <= l.tokens[j].index

\* what no token covers is whitespace or comment
GapsAreBlank(l) ==
    \A k \in 0..Len(l.source) - 1 :
        ~Covered(l, k) =>
            \/ l.source[k + 1] \in {" ", "\t", "\r", "\n"}
            \/ InComment(l, k)

ParseStarted == ninputs = 1

\* the cursor is at or before the sentinel that ends the list
CursorInList == parser.p.index <= Len(parser.p.tokens) - 1

\* a turn of the loop of parse either ends parse by raising or moves the
\* cursor forward, and the cursor never moves back
C30_TurnStep ==
    ParseStarted =>
        /\ parser'.p.index >= parser.p.index
        /\ (Parsing /\ parser' # parser /\ ~parser'.raised) =>
              parser'.p.index > parser.p.index

\* parse has returned or raised
ParseEnded == parser.raised \/ parser.returned

\* C30: on every token list that ends with the sentinel, in both modes, the
\* cursor never passes the sentinel, every turn of the loop of parse that
\* does not raise out of parse consumes at least one token (in mode file a
\* failed declaration followed by synchronize included), and parse ends
C30_ParseTerminates ==
    /\ []CursorInList
    /\ [][C30_TurnStep]_vars
    /\ (ParseStarted ~> ParseEnded)

\* parse in mode file has recovered twice from an error at the first token
\* of a declaration, where parse_declaration raised without consuming a
\* token, and has returned with the cursor at the sentinel
C30_Witness ==
    /\ ParseStarted
    /\ parser.mode = "file" /\ parser.returned
    /\ Len(parser.errors) = 2
    /\ parser.errors[1].index = 0
    /\ parser.errors[2].index = 1
    /\ parser.p.index = Len(parser.p.tokens) - 1

====
